---- MODULE Spec2Model ----
(***************************************************************************)
(* PdfTemplateEditor: the cover-page composition engine (server/routes.ts) *)
(* and the document store behind it (server/storage.ts,                    *)
(* server/cosmosStorage.ts), as a state machine.                           *)
(*                                                                         *)
(* Two specifications share the variables:                                 *)
(*   Spec        - the HTTP server: upload, get, preview, customize,       *)
(*                 cover-preview, download, template seeding; every        *)
(*                 handler is one atomic step (requests are sequential).   *)
(*   ComposeSpec - generateModifiedPdf alone: the inputs (original bytes,  *)
(*                 template, customization) are drawn in the initial       *)
(*                 state and the function runs several times in            *)
(*                 different environments (document id, output path,       *)
(*                 clock, disk).                                           *)
(*                                                                         *)
(* Conventions.  Text is a sequence of Unicode code points.  A colour      *)
(* string is a sequence of one-character strings.  A number that the code  *)
(* computes in floating point is an exact rational <<num, den>> in lowest  *)
(* terms with den > 0.  A missing (undefined) field of a customization is  *)
(* the empty text: every use in the code treats the two alike (||, if,     *)
(* switch default).                                                        *)
(***************************************************************************)
EXTENDS Integers, Sequences, FiniteSets, TLC

VARIABLES
    backend,     \* which IStorage implementation serves the routes
    documents,   \* the documents table / container: sequence, index = id
    templates,   \* the templates table / container: sequence of names, index = id
    files,       \* the disk under uploads/: path -> file content
    uploadedAs,  \* history: multer file number -> the bytes the client uploaded
    lastApplied, \* history: document id -> the request of the last customize answered 2xx
    resp,        \* the response to the last request, with what the handler did
    faults,      \* the number of failures injected so far (store calls, disk writes)
    input,       \* ComposeSpec: the (original, template, customizations) under test
    runs,        \* ComposeSpec: the completed runs of generateModifiedPdf
    now,         \* ComposeSpec: the clock
    inflight     \* requests whose handler is suspended at an await: slot -> its locals

vars == <<backend, documents, templates, files, uploadedAs, lastApplied, resp,
          faults, input, runs, now, inflight>>

(***************************************************************************)
(* Bounds of the model.                                                    *)
(***************************************************************************)
\* documents uploaded in one behaviour
MaxDocs == 1
\* failures of the store or the disk in one behaviour
MaxFaults == 1
\* pages of an uploaded original
MaxPages == 3
\* runs of generateModifiedPdf in ComposeSpec
MaxRuns == 2
\* the latest time of a run in ComposeSpec
MaxClock == 1
\* download requests in flight together in ConcurrentSpec
MaxRequests == 2
\* server processes that call seedTemplates on the same database in SeedSpec
MaxSeeders == 3
\* calls of seedTemplates in SeedSpec
MaxCalls == 4
\* users that can hold a session in RouteSpec
MaxUsers == 2
\* items the documents container can hold in CosmosCreateSpec
MaxItems == 3

(***************************************************************************)
(* Exact arithmetic for the values the code computes in floating point.    *)
(***************************************************************************)
RECURSIVE GCD(_, _)
GCD(a, b) == IF b = 0 THEN a ELSE GCD(b, a % b)

\* the rational n/d in lowest terms (n >= 0, d > 0)
Rat(n, d) == LET g == GCD(n, d) IN <<n \div g, d \div g>>

RatMul(p, q) == Rat(p[1] * q[1], p[2] * q[2])

RatAdd(p, q) == Rat(p[1] * q[2] + q[1] * p[2], p[2] * q[2])

\* the integer n as a number of the model
Num(n) == <<n, 1>>

\* x * n/d for an integer x
Scale(x, n, d) == Rat(x * n, d)

\* pdf-lib rgb(r, g, b)
rgb(r, g, b) == [r |-> r, g |-> g, b |-> b]

(***************************************************************************)
(* Geometry/style resolution (routes.ts).                                  *)
(***************************************************************************)
HexLower == <<"0","1","2","3","4","5","6","7","8","9","a","b","c","d","e","f">>
HexUpper == <<"0","1","2","3","4","5","6","7","8","9","A","B","C","D","E","F">>

\* [a-f\d] under the i flag
IsHexDigit(c) == \E v \in 1..16 : HexLower[v] = c \/ HexUpper[v] = c

HexVal(c) == (CHOOSE v \in 1..16 : HexLower[v] = c \/ HexUpper[v] = c) - 1

\* the two digits read in the wrong order (a variant of parseInt16)
parseInt16Swapped(hi, lo) == 16 * HexVal(lo) + HexVal(hi)

\* parseInt(two hex digits, 16)
parseInt16(hi, lo) == 16 * HexVal(hi) + HexVal(lo)

\* /^#?([a-f\d]{2})([a-f\d]{2})([a-f\d]{2})$/i : the six digits, or <<>> on no match
HexMatch(hex) ==
    LET body == IF Len(hex) > 0 /\ hex[1] = "#" THEN Tail(hex) ELSE hex
    IN  IF Len(body) = 6 /\ \A i \in 1..6 : IsHexDigit(body[i])
        THEN body ELSE <<>>

hexToRgb(hex) ==
    LET result == HexMatch(hex)
    IN  IF result # <<>>
        THEN [r |-> Rat(parseInt16(result[1], result[2]), 255),
              g |-> Rat(parseInt16(result[3], result[4]), 255),
              b |-> Rat(parseInt16(result[5], result[6]), 255)]
        ELSE [r |-> Num(0), g |-> Num(0), b |-> Num(0)]

\* a table whose default is Small (a variant of getTitleSize)
getTitleSizeDefaultSmall(titleSize) ==
    CASE titleSize = "Small" -> 24
      [] titleSize = "Medium" -> 32
      [] titleSize = "Large" -> 40
      [] titleSize = "Extra Large" -> 48
      [] OTHER -> 24

getTitleSize(titleSize) ==
    CASE titleSize = "Small" -> 24
      [] titleSize = "Medium" -> 32
      [] titleSize = "Large" -> 40
      [] titleSize = "Extra Large" -> 48
      [] OTHER -> 32

\* a rule whose default is the left margin (a variant of getTitleX)
getTitleXDefaultLeft(alignment, width) ==
    CASE alignment = "right" -> Num(width - 50)
      [] alignment = "center" -> Scale(width, 1, 2)
      [] OTHER -> Num(50)

getTitleX(alignment, width) ==
    CASE alignment = "left" -> Num(50)
      [] alignment = "right" -> Num(width - 50)
      [] OTHER -> Scale(width, 1, 2)

\* a switch that takes Raleway for a serif label (a variant of embedFontPreview)
embedFontPreviewSerifRaleway(fontFamily) ==
    LET family == IF fontFamily = "" THEN "Helvetica" ELSE fontFamily
    IN  CASE family = "Playfair Display" -> "TimesRoman"
          [] family = "Raleway" -> "TimesRoman"
          [] OTHER -> "Helvetica"

\* the switch over customizations.fontFamily in generateCustomizedCoverPreview
embedFontPreview(fontFamily) ==
    LET family == IF fontFamily = "" THEN "Helvetica" ELSE fontFamily
    IN  CASE family = "Roboto" -> "Helvetica"
          [] family = "Open Sans" -> "Helvetica"
          [] family = "Montserrat" -> "Helvetica"
          [] family = "Playfair Display" -> "TimesRoman"
          [] family = "Raleway" -> "Helvetica"
          [] OTHER -> "Helvetica"

\* the switch over customizations.fontFamily in generateModifiedPdf
embedFont(fontFamily) ==
    LET family == IF fontFamily = "" THEN "Helvetica" ELSE fontFamily
    IN  CASE family = "Roboto" -> "Helvetica"
          [] family = "Open Sans" -> "Helvetica"
          [] family = "Montserrat" -> "Helvetica"
          [] family = "Playfair Display" -> "TimesRoman"
          [] family = "Raleway" -> "Helvetica"
          [] OTHER -> "Helvetica"

(***************************************************************************)
(* Template renderer (routes.ts, applyTemplateDesign).  A page is the      *)
(* sequence of its draw operations, in drawing order.                      *)
(***************************************************************************)
drawRectangle(x, y, width, height, color) ==
    [op |-> "rect", x |-> x, y |-> y, width |-> width, height |-> height,
     color |-> color]

drawText(text, x, y, font, size, color) ==
    [op |-> "text", text |-> text, x |-> x, y |-> y, font |-> font,
     size |-> size, color |-> color]

\* rgb(color.r, color.g, color.b)
Solid(color) == rgb(color.r, color.g, color.b)

\* rgb(color.r * f, color.g * f, color.b * f)
Shade(color, f) == rgb(RatMul(color.r, f), RatMul(color.g, f), RatMul(color.b, f))

\* the ten stacked rectangles of 'Modern Gradient', i = 0..9
GradientBars(color, width, height) ==
    [k \in 1..10 |->
        LET i == k - 1
            opacity == RatAdd(Rat(1, 10), Rat(i * 5, 100))
        IN  drawRectangle(Num(0), Num(height - 150 + (i * 10)), Num(width), Num(20),
                          Shade(color, opacity))]

\* no header bar for a name outside the switch (a variant of defaultHeaderBar)
defaultHeaderBarNone(color, width, height) == <<>>

\* the default branch of the switch: one full-width bar of height 100 at the top
defaultHeaderBar(color, width, height) ==
    <<drawRectangle(Num(0), Num(height - 100), Num(width), Num(100), Solid(color))>>

\* switch (template.name): the shapes of the template
templateShapes(template, color, width, height) ==
    CASE template.name = "Corporate Blue" ->
            <<drawRectangle(Num(0), Num(height - 120), Num(width), Num(120), Solid(color))>>
      [] template.name = "Modern Gradient" ->
            GradientBars(color, width, height)
      [] template.name = "Minimal White" ->
            <<drawRectangle(Num(0), Num(height - 5), Num(width), Num(5), Solid(color))>>
      [] template.name = "Bold Red" ->
            <<drawRectangle(Num(0), Num(0), Num(20), Num(height), Solid(color)),
              drawRectangle(Num(20), Num(height - 80), Num(width - 20), Num(80),
                            Shade(color, Rat(8, 10)))>>
      [] template.name = "Elegant Black" ->
            <<drawRectangle(Num(40), Num(height - 100), Num(width - 80), Num(2),
                            Solid(color))>>
      [] template.name = "Tech Blue" ->
            <<drawRectangle(Num(0), Num(height - 60), Scale(width, 7, 10), Num(60),
                            Solid(color)),
              drawRectangle(Scale(width, 75, 100), Num(height - 40), Scale(width, 25, 100),
                            Num(20), Shade(color, Rat(7, 10)))>>
      [] OTHER -> defaultHeaderBar(color, width, height)

\* the white rectangle over the whole page
whiteBackground(width, height) ==
    drawRectangle(Num(0), Num(0), Num(width), Num(height), rgb(Num(1), Num(1), Num(1)))

\* the background drawn over the shapes (a variant of applyTemplateDesign)
applyTemplateDesignBackgroundLast(template, color, width, height) ==
    templateShapes(template, color, width, height) \o <<whiteBackground(width, height)>>

applyTemplateDesign(template, color, width, height) ==
    <<whiteBackground(width, height)>> \o templateShapes(template, color, width, height)

(***************************************************************************)
(* Text and the standard fonts.  pdf-lib encodes text drawn with a         *)
(* standard font (Helvetica, Times Roman) in WinAnsi and throws on a       *)
(* character outside it; the model keeps the printable ASCII and Latin-1   *)
(* ranges of that encoding.                                                *)
(***************************************************************************)
WinAnsi == (32..126) \cup (160..255)

CanEncode(text) == \A i \in 1..Len(text) : text[i] \in WinAnsi

\* 'Presentation Title'
DefaultTitle == <<80,114,101,115,101,110,116,97,116,105,111,110,32,84,105,116,108,101>>
\* 'Subtitle'
DefaultSubtitle == <<83,117,98,116,105,116,108,101>>
\* a presenter line without its label (a variant of PresentedBy)
PresentedByNothing == <<>>

\* 'Presented by: '
PresentedBy == <<80,114,101,115,101,110,116,101,100,32,98,121,58,32>>

\* a || b on strings
OrElse(a, b) == IF a = <<>> THEN b ELSE a

\* the colour strings are sequences of characters; '#0077B5' is the default
DefaultColor == <<"#","0","0","7","7","B","5">>

(***************************************************************************)
(* PDF files.  A file is [parseable, pages, created]; a page is            *)
(* [kind, no, ops]: page number `no` of an uploaded original, or a         *)
(* generated cover with its draw operations.                               *)
(***************************************************************************)
OriginalPage(i) == [kind |-> "orig", no |-> i, ops |-> <<>>]

\* a well-formed PDF of n pages, as uploaded
OriginalPdf(n) == [parseable |-> TRUE, pages |-> [i \in 1..n |-> OriginalPage(i)],
                   created |-> 0]

\* bytes that PDFDocument.load rejects
NotAPdf == [parseable |-> FALSE, pages |-> <<>>, created |-> 0]

CoverPageOf(ops) == [kind |-> "cover", no |-> 0, ops |-> ops]

\* a save that stamps its time on the first page (a variant of savePdf)
savePdfStamped(pages, clock) ==
    [parseable |-> TRUE,
     pages |-> [pages EXCEPT ![1].no = clock],
     created |-> clock]

\* PDFDocument.create() ... save(): the bytes of a new document with these
\* pages; pdf-lib records the creation time in the document information
savePdf(pages, clock) == [parseable |-> TRUE, pages |-> pages, created |-> clock]

\* fs.writeFile(path, bytes)
writeFile(fs, path, bytes) ==
    [p \in (DOMAIN fs) \cup {path} |-> IF p = path THEN bytes ELSE fs[p]]

\* path.resolve(process.cwd(), 'uploads', dir, name)
UploadsPath(dir, name) == <<"uploads", dir, name>>

\* multer filename: file.fieldname + '-' + uniqueSuffix + ext, fieldname = 'file'
MulterFileName(k) == <<"file", k>>

originalPdfPathOf(document) == UploadsPath("pdfs", document.fileName)

\* a download that writes its result over the original (a variant of
\* modifiedPdfPathOf)
modifiedPdfPathInPlace(document) == originalPdfPathOf(document)

modifiedPdfPathOf(document) == UploadsPath("pdfs", <<"modified", document.id>>)

previewPathOf(document) == UploadsPath("previews", <<"cover", document.id>>)

(***************************************************************************)
(* The draw operations of the cover page, in order: the template design,   *)
(* the title, the subtitle, then presenter and date when present.  The     *)
(* preview and the download each have their own copy in routes.ts.         *)
(***************************************************************************)
PreviewDrawOps(template, customizations) ==
    LET font == embedFontPreview(customizations.fontFamily)
        width == 612
        height == 792
        color == hexToRgb(OrElse(customizations.colorScheme, DefaultColor))
        titleSize == getTitleSize(customizations.titleSize)
        titleX == getTitleX(customizations.titleAlignment, width)
        grey == rgb(Rat(3, 10), Rat(3, 10), Rat(3, 10))
    IN  applyTemplateDesign(template, color, width, height)
        \o <<drawText(OrElse(customizations.title, DefaultTitle), titleX,
                      Num(height - 200), font, titleSize, rgb(Num(0), Num(0), Num(0)))>>
        \o <<drawText(OrElse(customizations.subtitle, DefaultSubtitle), titleX,
                      Num(height - 230), font, 18, grey)>>
        \o (IF customizations.presenter # <<>>
            THEN <<drawText(PresentedBy \o customizations.presenter, Num(50), Num(100),
                            font, 14, grey)>>
            ELSE <<>>)
        \o (IF customizations.date # <<>>
            THEN <<drawText(customizations.date, Num(50), Num(70), font, 14, grey)>>
            ELSE <<>>)

CoverDrawOps(template, customizations) ==
    LET font == embedFont(customizations.fontFamily)
        width == 612
        height == 792
        color == hexToRgb(OrElse(customizations.colorScheme, DefaultColor))
        titleSize == getTitleSize(customizations.titleSize)
        titleX == getTitleX(customizations.titleAlignment, width)
        grey == rgb(Rat(3, 10), Rat(3, 10), Rat(3, 10))
    IN  applyTemplateDesign(template, color, width, height)
        \o <<drawText(OrElse(customizations.title, DefaultTitle), titleX,
                      Num(height - 200), font, titleSize, rgb(Num(0), Num(0), Num(0)))>>
        \o <<drawText(OrElse(customizations.subtitle, DefaultSubtitle), titleX,
                      Num(height - 230), font, 18, grey)>>
        \o (IF customizations.presenter # <<>>
            THEN <<drawText(PresentedBy \o customizations.presenter, Num(50), Num(100),
                            font, 14, grey)>>
            ELSE <<>>)
        \o (IF customizations.date # <<>>
            THEN <<drawText(customizations.date, Num(50), Num(70), font, 14, grey)>>
            ELSE <<>>)

\* drawText throws when the font cannot encode the text
DrawThrows(ops) == \E i \in 1..Len(ops) : ops[i].op = "text" /\ ~CanEncode(ops[i].text)

(***************************************************************************)
(* generateCustomizedCoverPreview (routes.ts): returns the outcome and the *)
(* disk after the call.  diskOk: whether fs.writeFile succeeds; clock: the *)
(* time pdf-lib stamps into the new document.                              *)
(***************************************************************************)
generateCustomizedCoverPreview(fs, document, template, customizations, diskOk, clock) ==
    LET ops == PreviewDrawOps(template, customizations)
        pdfBytes == savePdf(<<CoverPageOf(ops)>>, clock)
        previewPath == previewPathOf(document)
    IN  IF DrawThrows(ops) THEN [outcome |-> "drawError", files |-> fs]
        ELSE IF ~diskOk THEN [outcome |-> "writeError", files |-> fs]
        ELSE [outcome |-> "ok", files |-> writeFile(fs, previewPath, pdfBytes)]

(***************************************************************************)
(* generateModifiedPdf (routes.ts): load the original, draw the cover on   *)
(* the first page of a new document, copy pages 2..N of the original       *)
(* behind it, save to outputPath.                                          *)
(***************************************************************************)
\* the same indices, last first (a variant of pageIndices)
pageIndicesDescending(count) == [i \in 1..(count - 1) |-> count - i]

\* Array.from({length: count - 1}, (_, i) => i + 1): the 0-based indices 1..count-1
pageIndices(count) == [i \in 1..(count - 1) |-> i]

\* a copy that keeps the first page too (a variant of copiedPages)
copiedPagesAll(originalPdfDoc) == originalPdfDoc.pages

\* copyPages + addPage for each, in order (index j is page j + 1)
copiedPages(originalPdfDoc) ==
    LET count == Len(originalPdfDoc.pages)
    IN  IF count > 1
        THEN [k \in 1..Len(pageIndices(count)) |-> originalPdfDoc.pages[pageIndices(count)[k] + 1]]
        ELSE <<>>

generateModifiedPdf(fs, originalPdfPath, outputPath, template, customizations, diskOk, clock) ==
    IF originalPdfPath \notin DOMAIN fs THEN [outcome |-> "readError", files |-> fs]
    ELSE
    LET originalPdfDoc == fs[originalPdfPath]
        ops == CoverDrawOps(template, customizations)
        pdfBytes == savePdf(<<CoverPageOf(ops)>> \o copiedPages(originalPdfDoc), clock)
    IN  IF ~originalPdfDoc.parseable THEN [outcome |-> "loadError", files |-> fs]
        ELSE IF DrawThrows(ops) THEN [outcome |-> "drawError", files |-> fs]
        ELSE IF ~diskOk THEN [outcome |-> "writeError", files |-> fs]
        ELSE [outcome |-> "ok", files |-> writeFile(fs, outputPath, pdfBytes)]

(***************************************************************************)
(* JavaScript values that the code tells apart by type: null, an object,   *)
(* or the JSON text of an object.                                          *)
(***************************************************************************)
JsNull == [type |-> "null"]

Obj(v) == [type |-> "object", value |-> v]

\* the characters of a string inside a JSON text: '"' and '\' are escaped with
\* a backslash, a line feed is written \n, every other character stands for itself
RECURSIVE JsonEscape(_)
JsonEscape(text) ==
    IF text = <<>> THEN <<>>
    ELSE (CASE text[1] = 34 -> <<92, 34>>
            [] text[1] = 92 -> <<92, 92>>
            [] text[1] = 10 -> <<92, 110>>
            [] OTHER -> <<text[1]>>) \o JsonEscape(Tail(text))

\* a reading that keeps the escapes as they are written (a variant of JsonUnescape)
JsonUnescapeNot(chars) == chars

\* the inverse reading: a backslash announces an escaped character
RECURSIVE JsonUnescape(_)
JsonUnescape(chars) ==
    IF chars = <<>> THEN <<>>
    ELSE IF chars[1] = 92 /\ Len(chars) >= 2
         THEN <<IF chars[2] = 110 THEN 10 ELSE chars[2]>>
              \o JsonUnescape(SubSeq(chars, 3, Len(chars)))
         ELSE <<chars[1]>> \o JsonUnescape(Tail(chars))

\* a string value as JSON text: the escaped characters between double quotes
JsonQuote(text) == <<34>> \o JsonEscape(text) \o <<34>>

JsonUnquote(chars) == JsonUnescape(SubSeq(chars, 2, Len(chars) - 1))

\* a non-negative integer as JSON text: its decimal digits
RECURSIVE JsonNumber(_)
JsonNumber(n) ==
    IF n < 10 THEN <<48 + n>> ELSE JsonNumber(n \div 10) \o <<48 + (n % 10)>>

RECURSIVE JsonParseNumber(_)
JsonParseNumber(chars) ==
    IF chars = <<>> THEN 0
    ELSE 10 * JsonParseNumber(SubSeq(chars, 1, Len(chars) - 1)) + (chars[Len(chars)] - 48)

\* JSON.stringify(v) of a customizations object: the text of each member.  The
\* colour and the three enumerated members are strings without characters to
\* escape and stand for their own text.
JSONstringify(v) ==
    [type |-> "string",
     value |-> [title |-> JsonQuote(v.title),
                subtitle |-> JsonQuote(v.subtitle),
                presenter |-> JsonQuote(v.presenter),
                date |-> JsonQuote(v.date),
                colorScheme |-> v.colorScheme,
                fontFamily |-> v.fontFamily,
                titleSize |-> v.titleSize,
                titleAlignment |-> v.titleAlignment,
                templateId |-> JsonNumber(v.templateId)]]

\* JSON.parse(s): the object the text s describes
JSONparse(s) ==
    Obj([title |-> JsonUnquote(s.value.title),
         subtitle |-> JsonUnquote(s.value.subtitle),
         presenter |-> JsonUnquote(s.value.presenter),
         date |-> JsonUnquote(s.value.date),
         colorScheme |-> s.value.colorScheme,
         fontFamily |-> s.value.fontFamily,
         titleSize |-> s.value.titleSize,
         titleAlignment |-> s.value.titleAlignment,
         templateId |-> JsonParseNumber(s.value.templateId)])

\* {...customizations, templateId}
WithTemplateId(customizations, templateId) ==
    [title |-> customizations.title,
     subtitle |-> customizations.subtitle,
     presenter |-> customizations.presenter,
     date |-> customizations.date,
     colorScheme |-> customizations.colorScheme,
     fontFamily |-> customizations.fontFamily,
     titleSize |-> customizations.titleSize,
     titleAlignment |-> customizations.titleAlignment,
     templateId |-> templateId]

(***************************************************************************)
(* The store (IStorage).  backend = "db": DatabaseStorage (storage.ts);    *)
(* "cosmos": CosmosDBStorage (cosmosStorage.ts); "cosmosRecovery": the     *)
(* CosmosDBStorage with the recovery paths (its updateDocumentCustomiza-   *)
(* tions returns a document when the replace fails).  `fails` says whether *)
(* the call's query to the database fails.                                 *)
(***************************************************************************)
Backends == {"db", "cosmos", "cosmosRecovery"}

NoDocument == [id |-> 0]

\* CosmosDBStorage.toAppDocument; the recovery version parses a JSON string
toAppDocument(cosmosDoc) ==
    IF backend = "cosmosRecovery" /\ cosmosDoc.customizations.type = "string"
    THEN [cosmosDoc EXCEPT !.customizations = JSONparse(cosmosDoc.customizations)]
    ELSE cosmosDoc

getDocument(id, fails) ==
    IF fails
    THEN [threw |-> (backend = "db"), found |-> FALSE, document |-> NoDocument]
    ELSE IF id \in 1..Len(documents)
         THEN [threw |-> FALSE, found |-> TRUE,
               document |-> IF backend = "db" THEN documents[id]
                            ELSE toAppDocument(documents[id])]
         ELSE [threw |-> FALSE, found |-> FALSE, document |-> NoDocument]

\* a lookup that falls back to the first template of the catalog (a variant of
\* getTemplate)
getTemplateOrFirst(id, fails) ==
    IF fails
    THEN [threw |-> (backend = "db"), found |-> FALSE, template |-> [id |-> 0, name |-> ""]]
    ELSE IF Len(templates) = 0
         THEN [threw |-> FALSE, found |-> FALSE, template |-> [id |-> 0, name |-> ""]]
         ELSE LET t == IF id \in 1..Len(templates) THEN id ELSE 1
              IN  [threw |-> FALSE, found |-> TRUE, template |-> [id |-> t, name |-> templates[t]]]

getTemplate(id, fails) ==
    IF fails
    THEN [threw |-> (backend = "db"), found |-> FALSE, template |-> [id |-> 0, name |-> ""]]
    ELSE IF id \in 1..Len(templates)
         THEN [threw |-> FALSE, found |-> TRUE, template |-> [id |-> id, name |-> templates[id]]]
         ELSE [threw |-> FALSE, found |-> FALSE, template |-> [id |-> 0, name |-> ""]]

\* CosmosDBStorage.getNextId: MAX(numericId) + 1, or 1 when the query fails
getNextId(fails) == IF fails THEN 1 ELSE Len(documents) + 1

NewRow(id, insertDocument) ==
    [id |-> id, fileName |-> insertDocument.fileName, isModified |-> FALSE,
     customizations |-> JsNull]

\* fault: "nextId" (the MAX query fails), "create" (the insert fails) or "none".
\* The containers are partitioned by /id, so creating an id that exists fails.
createDocument(insertDocument, fault) ==
    IF backend = "db"
    THEN IF fault = "create"
         THEN [threw |-> TRUE, documents |-> documents, id |-> 0]
         ELSE [threw |-> FALSE, id |-> Len(documents) + 1,
               documents |-> Append(documents, NewRow(Len(documents) + 1, insertDocument))]
    ELSE LET numericId == getNextId(fault = "nextId")
         IN  IF fault = "create" \/ numericId \in 1..Len(documents)
             THEN [threw |-> TRUE, documents |-> documents, id |-> 0]
             ELSE [threw |-> FALSE, id |-> numericId,
                   documents |-> Append(documents, NewRow(numericId, insertDocument))]

\* fault: "updateQuery" (finding the document fails), "updateReplace" (writing it
\* fails) or anything else (no failure).  DatabaseStorage issues one UPDATE.
updateDocumentCustomizations(id, customizations, fault) ==
    LET failed == [threw |-> TRUE, documents |-> documents]
        written(value) ==
            [threw |-> FALSE,
             documents |-> [documents EXCEPT ![id].customizations = value,
                                             ![id].isModified = TRUE]]
    IN  CASE backend = "db" ->
                IF fault \in {"updateQuery", "updateReplace"} THEN failed
                ELSE written(JSONstringify(customizations))
          [] backend = "cosmos" ->
                IF fault = "updateQuery" \/ id \notin 1..Len(documents) THEN failed
                ELSE IF fault = "updateReplace" THEN failed
                ELSE written(Obj(customizations))
          [] backend = "cosmosRecovery" ->
                IF fault = "updateQuery" \/ id \notin 1..Len(documents) THEN failed
                ELSE IF fault = "updateReplace"
                     THEN [threw |-> FALSE, documents |-> documents]
                     ELSE written(JSONstringify(customizations))

\* the six templates of seedTemplates, in insertion order
SeedTemplateNames ==
    <<"Corporate Blue", "Modern Gradient", "Minimal White", "Bold Red",
      "Elegant Black", "Tech Blue">>

(***************************************************************************)
(* Requests.                                                               *)
(***************************************************************************)
\* 'Q3 "A\B"' / "Fin" / "Jane" / "2024"
CustQ3 ==
    [title |-> <<81, 51, 32, 34, 65, 92, 66, 34>>, subtitle |-> <<70, 105, 110>>, presenter |-> <<74, 97, 110, 101>>,
     date |-> <<50, 48, 50, 52>>, colorScheme |-> DefaultColor, fontFamily |-> "Roboto",
     titleSize |-> "Large", titleAlignment |-> "center"]

\* every text empty, a colour that is no hex colour, the serif font
CustBare ==
    [title |-> <<>>, subtitle |-> <<>>, presenter |-> <<>>, date |-> <<>>,
     colorScheme |-> <<"r", "e", "d">>, fontFamily |-> "Playfair Display",
     titleSize |-> "", titleAlignment |-> "left"]

\* a title of one CJK character (U+65E5), which WinAnsi cannot encode
CustCjk ==
    [title |-> <<26085>>, subtitle |-> <<>>, presenter |-> <<65>>, date |-> <<>>,
     colorScheme |-> <<"f", "f", "0", "0", "0", "0">>, fontFamily |-> "Raleway",
     titleSize |-> "Small", titleAlignment |-> "right"]

Customizations == {CustQ3, CustBare, CustCjk}

\* "Talk" with a date and no presenter
CustDateOnly ==
    [title |-> <<84, 97, 108, 107>>, subtitle |-> <<>>, presenter |-> <<>>,
     date |-> <<50, 48, 50, 53>>, colorScheme |-> <<"#", "f", "f", "8", "0", "0", "0">>,
     fontFamily |-> "Montserrat", titleSize |-> "Extra Large", titleAlignment |-> "right"]

\* "Talk" with a presenter ("Al") and no date
CustPresenterOnly ==
    [title |-> <<84, 97, 108, 107>>, subtitle |-> <<83, 117, 98>>, presenter |-> <<65, 108>>,
     date |-> <<>>, colorScheme |-> <<>>, fontFamily |-> "",
     titleSize |-> "Medium", titleAlignment |-> ""]

\* the customizations rendered in RenderSpec
RenderCustomizations == Customizations \cup {CustDateOnly, CustPresenterOnly}

\* bodies of POST /api/documents/:id/customize; template 7 is in no catalog,
\* templateId 0 and customizations null are the missing fields
CustomizeBodies ==
    {[templateId |-> 1, customizations |-> Obj(CustQ3)],
     [templateId |-> 4, customizations |-> Obj(CustBare)],
     [templateId |-> 7, customizations |-> Obj(CustQ3)],
     [templateId |-> 0, customizations |-> Obj(CustBare)],
     [templateId |-> 1, customizations |-> JsNull]}

\* what a client can upload as application/pdf
Uploads == {NotAPdf} \cup {OriginalPdf(n) : n \in 0..MaxPages}

\* the uploads of Spec: bytes that are no PDF, and a PDF of MaxPages pages
ServerUploads == {NotAPdf, OriginalPdf(MaxPages)}

DocIds == 1..MaxDocs

NoBody == [type |-> "none"]

FileBody(bytes) == [type |-> "file", value |-> bytes]

JsonBody(v) == [type |-> "json", value |-> v]

\* res.sendFile / res.download of a path
sendFile(fs, path) == FileBody(fs[path])

(***************************************************************************)
(* Route handlers (routes.ts, registerRoutes).  Each returns the status,   *)
(* the body, the store and the disk after the request, and two notes for   *)
(* the properties: storeFailed (a store call made by the request failed)   *)
(* and compose (the outcome of the renderer, "none" when it did not run).  *)
(***************************************************************************)
Answer(status, body, docs, fs, storeFailed, compose) ==
    [status |-> status, body |-> body, documents |-> docs, files |-> fs,
     storeFailed |-> storeFailed, compose |-> compose]

\* an answer that leaves the store and the disk alone
Reply(status, body, storeFailed) ==
    Answer(status, body, documents, files, storeFailed, "none")

\* GET /api/documents/:id
getDocumentRoute(id, fault) ==
    LET d == getDocument(id, fault = "getDocument")
    IN  IF d.threw THEN Reply(500, NoBody, TRUE)
        ELSE IF ~d.found THEN Reply(404, NoBody, fault = "getDocument")
        ELSE Reply(200, JsonBody(d.document), FALSE)

\* GET /api/documents/:id/preview
previewRoute(id, fault) ==
    LET d == getDocument(id, fault = "getDocument")
    IN  IF d.threw THEN Reply(500, NoBody, TRUE)
        ELSE IF ~d.found THEN Reply(404, NoBody, fault = "getDocument")
        ELSE Reply(200, sendFile(files, originalPdfPathOf(d.document)), FALSE)

\* GET /api/documents/:id/cover-preview
coverPreviewRoute(id, fault) ==
    LET d == getDocument(id, fault = "getDocument")
    IN  IF d.threw THEN Reply(500, NoBody, TRUE)
        ELSE IF ~d.found THEN Reply(404, NoBody, fault = "getDocument")
        ELSE IF previewPathOf(d.document) \notin DOMAIN files THEN Reply(404, NoBody, FALSE)
        ELSE Reply(200, sendFile(files, previewPathOf(d.document)), FALSE)

\* POST /api/documents/:id/customize
customizeRoute(id, body, fault) ==
    LET d == getDocument(id, fault = "getDocument")
    IN  IF d.threw THEN Reply(500, NoBody, TRUE)
        ELSE IF ~d.found THEN Reply(404, NoBody, fault = "getDocument")
        ELSE IF body.templateId = 0 \/ body.customizations.type = "null"
        THEN Reply(400, NoBody, FALSE)
        ELSE
        LET t == getTemplate(body.templateId, fault = "getTemplate")
        IN  IF t.threw THEN Reply(500, NoBody, TRUE)
            ELSE IF ~t.found THEN Reply(404, NoBody, fault = "getTemplate")
            ELSE
            LET customizations == body.customizations.value
                updatedCustomizations == WithTemplateId(customizations, body.templateId)
                u == updateDocumentCustomizations(id, updatedCustomizations, fault)
                updateFailed == fault \in {"updateQuery", "updateReplace"}
                g == generateCustomizedCoverPreview(files, d.document, t.template,
                                                    customizations, fault # "disk", now)
            IN  IF u.threw THEN Reply(500, NoBody, TRUE)
                ELSE IF g.outcome # "ok"
                THEN Answer(500, NoBody, u.documents, g.files, updateFailed, g.outcome)
                ELSE Answer(200, NoBody, u.documents, g.files, updateFailed, g.outcome)

\* the customizations the download handler takes from the document: parsed
\* when the store returned a string, as they are when it returned an object
StoredCustomizations(document) ==
    IF document.customizations.type = "string"
    THEN JSONparse(document.customizations).value
    ELSE document.customizations.value

\* GET /api/documents/:id/download
downloadRoute(id, fault) ==
    LET d == getDocument(id, fault = "getDocument")
    IN  IF d.threw THEN Reply(500, NoBody, TRUE)
        ELSE IF ~d.found THEN Reply(404, NoBody, fault = "getDocument")
        ELSE IF d.document.customizations.type = "null"
        THEN Reply(200, sendFile(files, originalPdfPathOf(d.document)), FALSE)
        ELSE
        LET customizations == StoredCustomizations(d.document)
            t == getTemplate(customizations.templateId, fault = "getTemplate")
        IN  IF t.threw THEN Reply(500, NoBody, TRUE)
            ELSE IF ~t.found THEN Reply(404, NoBody, fault = "getTemplate")
            ELSE
            LET originalPdfPath == originalPdfPathOf(d.document)
                modifiedPdfPath == modifiedPdfPathOf(d.document)
                g == generateModifiedPdf(files, originalPdfPath, modifiedPdfPath,
                                         t.template, customizations, fault # "disk", now)
            IN  IF g.outcome # "ok"
                THEN Answer(500, NoBody, documents, g.files, FALSE, g.outcome)
                ELSE Answer(200, sendFile(g.files, modifiedPdfPath), documents, g.files,
                            FALSE, g.outcome)

\* POST /api/upload: multer stores the bytes as file number k, then the handler
\* creates the document
uploadRoute(k, bytes, fault) ==
    LET stored == writeFile(files, UploadsPath("pdfs", MulterFileName(k)), bytes)
        c == createDocument([fileName |-> MulterFileName(k)], fault)
    IN  IF c.threw THEN Answer(500, NoBody, c.documents, stored, TRUE, "none")
        ELSE Answer(201, JsonBody([documentId |-> c.id]), c.documents, stored, FALSE, "none")

(***************************************************************************)
(* Spec: the server.                                                       *)
(***************************************************************************)
Response(op, id, req, a) ==
    [op |-> op, id |-> id, req |-> req, status |-> a.status, body |-> a.body,
     storeFailed |-> a.storeFailed, compose |-> a.compose]

NoRequest == [templateId |-> 0, customizations |-> JsNull]

NoInput == [original |-> NotAPdf, template |-> [id |-> 0, name |-> ""],
            customizations |-> CustBare]

Init ==
    /\ backend \in Backends
    /\ documents = <<>>
    /\ templates = <<>>
    /\ files = <<>>
    /\ uploadedAs = <<>>
    /\ lastApplied = [i \in DocIds |-> NoRequest]
    /\ resp = [op |-> "start", id |-> 0, req |-> NoRequest, status |-> 0, body |-> NoBody,
               storeFailed |-> FALSE, compose |-> "none"]
    /\ faults = 0
    /\ input = NoInput
    /\ runs = <<>>
    /\ now = 0
    /\ inflight = <<>>

\* fault = "none", or one more failure within the budget
Inject(fault) ==
    /\ fault # "none" => faults < MaxFaults
    /\ faults' = IF fault = "none" THEN faults ELSE faults + 1

\* seedTemplates (seed.ts), called when the routes are registered
SeedTemplates ==
    /\ templates' = IF Len(templates) = 0 THEN SeedTemplateNames ELSE templates
    /\ resp' = [op |-> "seed", id |-> 0, req |-> NoRequest, status |-> 0, body |-> NoBody,
                storeFailed |-> FALSE, compose |-> "none"]
    /\ UNCHANGED <<backend, documents, files, uploadedAs, lastApplied, faults, input,
                   runs, now, inflight>>

Upload(bytes, fault) ==
    /\ Inject(fault)
    /\ Len(uploadedAs) < MaxDocs
    /\ LET k == Len(uploadedAs) + 1
           a == uploadRoute(k, bytes, fault)
       IN  /\ documents' = a.documents
           /\ files' = a.files
           /\ uploadedAs' = Append(uploadedAs, bytes)
           /\ resp' = Response("upload", k, NoRequest, a)
    /\ UNCHANGED <<backend, templates, lastApplied, input, runs, now, inflight>>

\* POST /api/upload without a file
UploadNothing ==
    /\ resp' = [op |-> "upload", id |-> 0, req |-> NoRequest, status |-> 400,
                body |-> NoBody, storeFailed |-> FALSE, compose |-> "none"]
    /\ UNCHANGED <<backend, documents, templates, files, uploadedAs, lastApplied,
                   faults, input, runs, now, inflight>>

GetDocument(id, fault) ==
    /\ Inject(fault)
    /\ resp' = Response("get", id, NoRequest, getDocumentRoute(id, fault))
    /\ UNCHANGED <<backend, documents, templates, files, uploadedAs, lastApplied,
                   input, runs, now, inflight>>

Preview(id, fault) ==
    /\ Inject(fault)
    /\ resp' = Response("preview", id, NoRequest, previewRoute(id, fault))
    /\ UNCHANGED <<backend, documents, templates, files, uploadedAs, lastApplied,
                   input, runs, now, inflight>>

CoverPreview(id, fault) ==
    /\ Inject(fault)
    /\ resp' = Response("coverPreview", id, NoRequest, coverPreviewRoute(id, fault))
    /\ UNCHANGED <<backend, documents, templates, files, uploadedAs, lastApplied,
                   input, runs, now, inflight>>

Customize(id, body, fault) ==
    /\ Inject(fault)
    /\ LET a == customizeRoute(id, body, fault)
       IN  /\ documents' = a.documents
           /\ files' = a.files
           /\ resp' = Response("customize", id, body, a)
           /\ lastApplied' = IF a.status = 200 THEN [lastApplied EXCEPT ![id] = body]
                             ELSE lastApplied
    /\ UNCHANGED <<backend, templates, uploadedAs, input, runs, now, inflight>>

Download(id, fault) ==
    /\ Inject(fault)
    /\ LET a == downloadRoute(id, fault)
       IN  /\ documents' = a.documents
           /\ files' = a.files
           /\ resp' = Response("download", id, NoRequest, a)
    /\ UNCHANGED <<backend, templates, uploadedAs, lastApplied, input, runs, now, inflight>>

ReadFaults == {"none", "getDocument"}

UploadFaults == {"none", "nextId", "create"}

CustomizeFaults == {"none", "getDocument", "getTemplate", "updateQuery", "updateReplace", "disk"}

DownloadFaults == {"none", "getDocument", "getTemplate", "disk"}

Next ==
    \/ SeedTemplates
    \/ UploadNothing
    \/ \E bytes \in ServerUploads, fault \in UploadFaults : Upload(bytes, fault)
    \/ \E id \in DocIds, fault \in ReadFaults : GetDocument(id, fault)
    \/ \E id \in DocIds, fault \in ReadFaults : Preview(id, fault)
    \/ \E id \in DocIds, fault \in ReadFaults : CoverPreview(id, fault)
    \/ \E id \in DocIds, body \in CustomizeBodies, fault \in CustomizeFaults :
          Customize(id, body, fault)
    \/ \E id \in DocIds, fault \in DownloadFaults : Download(id, fault)

Spec == Init /\ [][Next]_vars

(***************************************************************************)
(* ComposeSpec: generateModifiedPdf on one fixed input, run up to MaxRuns  *)
(* times for different documents (hence output paths), at different times, *)
(* with or without a disk that accepts the write, each run after the       *)
(* earlier ones.                                                           *)
(***************************************************************************)
\* the rows of the seeded catalog, and one template with a name of its own
ComposeTemplates ==
    {[id |-> i, name |-> SeedTemplateNames[i]] : i \in 1..Len(SeedTemplateNames)}
    \cup {[id |-> Len(SeedTemplateNames) + 1, name |-> "Custom"]}

\* two documents, so that runs can differ in the document and the output path
ComposeDocs == {1, 2}

\* document d, whose original was stored by multer as file d
ComposeDocument(d) ==
    [id |-> d, fileName |-> MulterFileName(d), isModified |-> TRUE,
     customizations |-> JsNull]

\* what a run that threw leaves as its result
NoOutput == [parseable |-> FALSE, pages |-> <<>>, created |-> 0]

ComposeInit ==
    /\ backend = "db"
    /\ documents = <<>>
    /\ templates = SeedTemplateNames
    /\ input \in [original : Uploads, template : ComposeTemplates,
                  customizations : Customizations]
    /\ files = [p \in {originalPdfPathOf(ComposeDocument(d)) : d \in ComposeDocs} |->
                   input.original]
    /\ uploadedAs = <<>>
    /\ lastApplied = [i \in DocIds |-> NoRequest]
    /\ resp = [op |-> "start", id |-> 0, req |-> NoRequest, status |-> 0, body |-> NoBody,
               storeFailed |-> FALSE, compose |-> "none"]
    /\ faults = 0
    /\ runs = <<>>
    /\ now = 0
    /\ inflight = <<>>

\* one call of generateModifiedPdf, as the download handler makes it for document d
ComposeRun(d, diskOk) ==
    /\ Len(runs) < MaxRuns
    /\ LET document == ComposeDocument(d)
           outputPath == modifiedPdfPathOf(document)
           g == generateModifiedPdf(files, originalPdfPathOf(document), outputPath,
                                    input.template, input.customizations, diskOk, now)
       IN  /\ files' = g.files
           /\ runs' = Append(runs,
                  [document |-> d, at |-> now, diskOk |-> diskOk, outcome |-> g.outcome,
                   output |-> IF g.outcome = "ok" THEN g.files[outputPath] ELSE NoOutput])
    /\ UNCHANGED <<backend, documents, templates, uploadedAs, lastApplied, resp, faults,
                   input, now, inflight>>

\* time passes
Tick ==
    /\ now < MaxClock
    /\ now' = now + 1
    /\ UNCHANGED <<backend, documents, templates, files, uploadedAs, lastApplied, resp,
                   faults, input, runs, inflight>>

ComposeNext ==
    \/ \E d \in ComposeDocs, diskOk \in BOOLEAN : ComposeRun(d, diskOk)
    \/ Tick

ComposeSpec == ComposeInit /\ [][ComposeNext]_vars

(***************************************************************************)
(* Properties of generateModifiedPdf (ComposeSpec).                        *)
(***************************************************************************)
\* the pages of the original under test
OriginalPages == input.original.pages

\* the file at the output path of run k
WrittenBy(k) == files[modifiedPdfPathOf(ComposeDocument(runs[k].document))]

\* the texts the cover draws for the customization under test can be encoded
Encodable == ~DrawThrows(CoverDrawOps(input.template, input.customizations))

\* C1: for an original of N >= 1 pages, whatever the template and the
\* customization, the document generateModifiedPdf writes has exactly N pages (a
\* 1-page original gives 1 page), and it is written whenever the original
\* parses, the texts can be encoded and the disk accepts the write.
OutputPageCountIsN ==
    \A k \in 1..Len(runs) :
        (input.original.parseable /\ Len(OriginalPages) >= 1) =>
            /\ (Encodable /\ runs[k].diskOk) => runs[k].outcome = "ok"
            /\ runs[k].outcome = "ok" =>
                  /\ Len(runs[k].output.pages) = Len(OriginalPages)
                  /\ Len(WrittenBy(k).pages) = Len(OriginalPages)

\* a 1-page original was composed and its output has one page
OnePageComposed ==
    \E k \in 1..Len(runs) :
        /\ Len(OriginalPages) = 1
        /\ runs[k].outcome = "ok"
        /\ Len(runs[k].output.pages) = 1

\* C2: the output is the generated cover followed by pages 2..N of the original
\* in their order: the cover is first, output page i is original page i for
\* 2 <= i <= N, original page 1 is nowhere, no page occurs twice.
CoverThenPagesTwoToN ==
    \A k \in 1..Len(runs) :
        runs[k].outcome = "ok" =>
            LET out == runs[k].output.pages
                N == Len(OriginalPages)
            IN  /\ out[1] = CoverPageOf(CoverDrawOps(input.template, input.customizations))
                /\ Len(out) = 1 + Cardinality(2..N)
                /\ \A i \in 2..N : out[i] = OriginalPages[i]
                /\ N >= 1 => \A i \in 1..Len(out) : out[i] # OriginalPages[1]
                /\ \A i, j \in 1..Len(out) : out[i] = out[j] => i = j

\* an original of at least three pages was composed
ThreePagesComposed ==
    \E k \in 1..Len(runs) :
        /\ Len(OriginalPages) >= 3
        /\ runs[k].outcome = "ok"
        /\ runs[k].output.pages[3] = OriginalPages[3]

\* C3: for an original of zero pages generateModifiedPdf raises an error, the
\* malformed-source error (the failure of the load) when nothing else can fail,
\* and neither returns nor writes an output.
ZeroPagesRaises ==
    \A k \in 1..Len(runs) :
        (input.original.parseable /\ Len(OriginalPages) = 0) =>
            /\ runs[k].outcome # "ok"
            /\ (Encodable /\ runs[k].diskOk) => runs[k].outcome = "loadError"
            /\ runs[k].output = NoOutput
            /\ modifiedPdfPathOf(ComposeDocument(runs[k].document)) \notin DOMAIN files

\* C4: two runs on the same original, template and customization have the same
\* outcome and produce the same pages, with the same draw operations (shapes and
\* texts, positions, sizes, fonts, colours) on each page, whatever the time, the
\* document or the runs before them.
ComposeDeterministic ==
    \A j, k \in 1..Len(runs) :
        (runs[j].diskOk /\ runs[k].diskOk) =>
            /\ runs[j].outcome = runs[k].outcome
            /\ Len(runs[j].output.pages) = Len(runs[k].output.pages)
            /\ runs[j].output.pages = runs[k].output.pages

\* two runs for different documents at different times both produced an output
TwoRunsApart ==
    \E j, k \in 1..Len(runs) :
        /\ runs[j].document # runs[k].document
        /\ runs[j].at # runs[k].at
        /\ runs[j].outcome = "ok" /\ runs[k].outcome = "ok"
        /\ Len(runs[j].output.pages) >= 2

(***************************************************************************)
(* Properties of the server (Spec).                                        *)
(***************************************************************************)
\* the bytes the client uploaded for a document
UploadedBytes(document) == uploadedAs[document.fileName[2]]

\* the cover that answers the request of a customize
CoverFor(req) ==
    CoverPageOf(CoverDrawOps([id |-> req.templateId, name |-> templates[req.templateId]],
                             req.customizations.value))

\* C5: a download after customize requests composes its cover from the template
\* and the customization of the last customize that was answered with success:
\* the whole of it and nothing of an earlier one, computed by this download.
DownloadUsesLastCustomize ==
    (/\ resp.op = "download"
     /\ resp.status = 200
     /\ lastApplied[resp.id] # NoRequest) =>
        /\ resp.compose = "ok"
        /\ resp.body.type = "file"
        /\ Len(resp.body.value.pages) >= 1
        /\ resp.body.value.pages[1] = CoverFor(lastApplied[resp.id])

\* C6: a document is created with customizations null and isModified false;
\* after a customize answered with success it has customizations set and
\* isModified true; isModified holds exactly when customizations is not null;
\* isModified never goes back to false and no document is removed.
DocumentLifecycle ==
    [][/\ Len(documents') >= Len(documents)
       /\ \A i \in 1..Len(documents) :
             /\ documents'[i].id = documents[i].id
             /\ documents[i].isModified => documents'[i].isModified
       /\ \A i \in (Len(documents) + 1)..Len(documents') :
             /\ documents'[i].customizations = JsNull
             /\ ~documents'[i].isModified
       /\ \A i \in 1..Len(documents') :
             documents'[i].isModified <=> documents'[i].customizations # JsNull
       /\ (resp'.op = "customize" /\ resp'.status = 200) =>
             /\ resp'.id \in 1..Len(documents')
             /\ documents'[resp'.id].isModified
             /\ documents'[resp'.id].customizations # JsNull]_vars

MalformedOriginalIs4xx ==
    (resp.op = "download" /\ resp.compose = "loadError") => resp.status \in 400..499

\* C9: a get-document, customize or download during which a store call failed
\* is answered 5xx: never with success, never 404, and never while the store
\* still holds the old customization behind an answer of success.
StoreFailureIs5xx ==
    (resp.op \in {"get", "customize", "download"} /\ resp.storeFailed) =>
        resp.status \in 500..599

\* C10: whatever customize and download requests were made, the file of every
\* document's original holds the uploaded bytes, the preview endpoint returns
\* them, and the cover preview and the modified PDF of any document are at
\* paths different from every original's path.
OriginalUntouched ==
    /\ \A i \in 1..Len(documents) :
          /\ originalPdfPathOf(documents[i]) \in DOMAIN files
          /\ files[originalPdfPathOf(documents[i])] = UploadedBytes(documents[i])
          /\ \A j \in 1..Len(documents) :
                /\ previewPathOf(documents[j]) # originalPdfPathOf(documents[i])
                /\ modifiedPdfPathOf(documents[j]) # originalPdfPathOf(documents[i])
    /\ (resp.op = "preview" /\ resp.status = 200) =>
          resp.body = FileBody(UploadedBytes(documents[resp.id]))

\* the preview of a PDF was served after its cover preview and its modified PDF
\* were written
PreviewAfterDownload ==
    /\ resp.op = "preview"
    /\ resp.status = 200
    /\ resp.body.value.parseable
    /\ previewPathOf(documents[resp.id]) \in DOMAIN files
    /\ modifiedPdfPathOf(documents[resp.id]) \in DOMAIN files

(***************************************************************************)
(* ConcurrentSpec: the server with download requests that interleave.  The *)
(* download handler is suspended at its awaits: after storage.getDocument, *)
(* after generateModifiedPdf (whose last await is fs.writeFile), and       *)
(* res.download reads the file at modifiedPdfPath when it streams it.      *)
(* Upload, customize and seeding are single steps between those.           *)
(***************************************************************************)
Requests == 1..MaxRequests

\* the locals of a download handler: where it is, the document and the
\* customizations it loaded, the bytes it wrote, the bytes it streamed
Handler(pc, id, status, customizations, composed, streamed) ==
    [pc |-> pc, id |-> id, status |-> status, customizations |-> customizations,
     composed |-> composed, streamed |-> streamed]

NoCustomizations == WithTemplateId(CustBare, 0)

Idle == Handler("idle", 0, 0, NoCustomizations, NoOutput, NoOutput)

ConcurrentInit ==
    /\ backend \in Backends
    /\ documents = <<>>
    /\ templates = <<>>
    /\ files = <<>>
    /\ uploadedAs = <<>>
    /\ lastApplied = [i \in DocIds |-> NoRequest]
    /\ resp = [op |-> "start", id |-> 0, req |-> NoRequest, status |-> 0, body |-> NoBody,
               storeFailed |-> FALSE, compose |-> "none"]
    /\ faults = 0
    /\ input = NoInput
    /\ runs = <<>>
    /\ now = 0
    /\ inflight = [r \in Requests |-> Idle]

\* GET /api/documents/:id/download up to the return of storage.getDocument
DownloadLoad(r, id) ==
    /\ inflight[r].pc = "idle"
    /\ LET d == getDocument(id, FALSE)
       IN  inflight' = [inflight EXCEPT ![r] =
              IF ~d.found
              THEN Handler("done", id, 404, NoCustomizations, NoOutput, NoOutput)
              ELSE IF d.document.customizations.type = "null"
              THEN Handler("sendOriginal", id, 0, NoCustomizations, NoOutput, NoOutput)
              ELSE Handler("loaded", id, 0, StoredCustomizations(d.document),
                           NoOutput, NoOutput)]
    /\ UNCHANGED <<backend, documents, templates, files, uploadedAs, lastApplied, resp,
                   faults, input, runs, now>>

\* ... storage.getTemplate and generateModifiedPdf, up to the return of its
\* fs.writeFile
DownloadCompose(r) ==
    /\ inflight[r].pc = "loaded"
    /\ LET h == inflight[r]
           document == documents[h.id]
           t == getTemplate(h.customizations.templateId, FALSE)
           modifiedPdfPath == modifiedPdfPathOf(document)
           g == generateModifiedPdf(files, originalPdfPathOf(document), modifiedPdfPath,
                                    t.template, h.customizations, TRUE, now)
       IN  IF ~t.found
           THEN /\ inflight' = [inflight EXCEPT ![r] =
                       Handler("done", h.id, 404, h.customizations, NoOutput, NoOutput)]
                /\ files' = files
           ELSE IF g.outcome # "ok"
           THEN /\ inflight' = [inflight EXCEPT ![r] =
                       Handler("done", h.id, 500, h.customizations, NoOutput, NoOutput)]
                /\ files' = g.files
           ELSE /\ inflight' = [inflight EXCEPT ![r] =
                       Handler("send", h.id, 0, h.customizations,
                               g.files[modifiedPdfPath], NoOutput)]
                /\ files' = g.files
    /\ UNCHANGED <<backend, documents, templates, uploadedAs, lastApplied, resp,
                   faults, input, runs, now>>

\* ... res.download(modifiedPdfPath): the file is read when it is streamed
DownloadSend(r) ==
    /\ inflight[r].pc = "send"
    /\ LET h == inflight[r]
           body == sendFile(files, modifiedPdfPathOf(documents[h.id]))
       IN  inflight' = [inflight EXCEPT ![r] =
              Handler("done", h.id, 200, h.customizations, h.composed, body.value)]
    /\ UNCHANGED <<backend, documents, templates, files, uploadedAs, lastApplied, resp,
                   faults, input, runs, now>>

\* ... res.download(filePath) of a document without customizations
DownloadSendOriginal(r) ==
    /\ inflight[r].pc = "sendOriginal"
    /\ LET h == inflight[r]
           body == sendFile(files, originalPdfPathOf(documents[h.id]))
       IN  inflight' = [inflight EXCEPT ![r] =
              Handler("done", h.id, 200, h.customizations, body.value, body.value)]
    /\ UNCHANGED <<backend, documents, templates, files, uploadedAs, lastApplied, resp,
                   faults, input, runs, now>>

ConcurrentNext ==
    \/ SeedTemplates
    \/ \E bytes \in ServerUploads : Upload(bytes, "none")
    \/ \E id \in DocIds, body \in CustomizeBodies : Customize(id, body, "none")
    \/ \E r \in Requests, id \in DocIds : DownloadLoad(r, id)
    \/ \E r \in Requests : DownloadCompose(r)
    \/ \E r \in Requests : DownloadSend(r)
    \/ \E r \in Requests : DownloadSendOriginal(r)

ConcurrentSpec == ConcurrentInit /\ [][ConcurrentNext]_vars

\* C11: whatever the interleaving of download requests, with customize requests
\* in between, the bytes a request streams are the output that request composed
\* from the customization it loaded, never a file another request wrote.
StreamsOwnOutput ==
    \A r \in Requests :
        (inflight[r].pc = "done" /\ inflight[r].status = 200) =>
            inflight[r].streamed = inflight[r].composed

\* C12: the record the download handler passes to the renderer is the record
\* {...customizations, templateId} that the preceding customize saved, whether
\* the store returns it as JSON text or as an object; the cover of a download is
\* drawn from that record, so it is the same for both representations.
SavedCustomizationsComeBack ==
    /\ (/\ resp.op = "customize"
        /\ resp.compose # "none"
        /\ ~resp.storeFailed) =>
          /\ getDocument(resp.id, FALSE).found
          /\ getDocument(resp.id, FALSE).document.customizations.type \in {"string", "object"}
          /\ StoredCustomizations(getDocument(resp.id, FALSE).document)
                = WithTemplateId(resp.req.customizations.value, resp.req.templateId)
    /\ (resp.op = "download" /\ resp.compose = "ok" /\ lastApplied[resp.id] # NoRequest
        /\ StoredCustomizations(getDocument(resp.id, FALSE).document)
              = WithTemplateId(lastApplied[resp.id].customizations.value,
                               lastApplied[resp.id].templateId)) =>
          resp.body.value.pages[1] = CoverFor(lastApplied[resp.id])

\* a download was composed from customizations whose title has a double quote
\* and a backslash, read back from a store that keeps them as JSON text
QuotedTitleCameBack ==
    /\ resp.op = "download"
    /\ resp.compose = "ok"
    /\ documents[resp.id].customizations.type = "string"
    /\ \E i \in 1..Len(StoredCustomizations(documents[resp.id]).title) :
          StoredCustomizations(documents[resp.id]).title[i] = 92

(***************************************************************************)
(* AnalyzeSpec: the server with the suggestion feature,                    *)
(* GET /api/documents/:id/analyze.  The handler sends one request to the   *)
(* Azure OpenAI deployment (axios.post, no timeout option) and is          *)
(* suspended until the promise settles; the service answers in a step of   *)
(* its own, or never.  Texts of a suggestion are atoms.                    *)
(***************************************************************************)
\* simpleTextExtractor.extractPDFInfo: a summary of the metadata, or the fixed
\* sentence when the file cannot be read or loaded; it never throws
\* the document information of a PDF without any: every getter returns undefined
NoInfo == [title |-> "", author |-> "", subject |-> "", keywords |-> "", creator |-> ""]

\* getTitle(), getAuthor(), getSubject(), getKeywords(), getCreator()
InfoOf(bytes) == IF "info" \in DOMAIN bytes THEN bytes.info ELSE NoInfo

\* the sentence returned by the catch block of extractPDFInfo
FallbackText ==
    <<"Unable to extract PDF information. Please generate professional content based on LinkedIn best practices.">>

\* the try block of extractPDFInfo after PDFDocument.load: the text, as the
\* sequence of the pieces appended to extractedText
pdfSummary(bytes) ==
    LET totalPages == ToString(Len(bytes.pages))
        title == IF InfoOf(bytes).title = "" THEN "Untitled Document"
                 ELSE InfoOf(bytes).title
        author == IF InfoOf(bytes).author = "" THEN "Unknown Author"
                  ELSE InfoOf(bytes).author
        subject == InfoOf(bytes).subject
        keywords == InfoOf(bytes).keywords
        creator == InfoOf(bytes).creator
    IN  <<"PDF Document Information:\n">>
        \o <<"Title: ", title, "\n">>
        \o <<"Author: ", author, "\n">>
        \o (IF subject # "" THEN <<"Subject: ", subject, "\n">> ELSE <<>>)
        \o (IF keywords # "" THEN <<"Keywords: ", keywords, "\n">> ELSE <<>>)
        \o <<"Total Pages: ", totalPages, "\n">>
        \o <<"\nThis is a ", totalPages, "-page document">>
        \o (IF title # "Untitled Document" THEN <<" titled \"", title, "\"">> ELSE <<>>)
        \o (IF author # "Unknown Author" THEN <<" by ", author>> ELSE <<>>)
        \o <<".\n">>
        \o (IF subject # "" THEN <<"\nThe document covers: ", subject, "\n">> ELSE <<>>)
        \o (IF creator # "" THEN <<"\nCreated using: ", creator, "\n">> ELSE <<>>)

\* the error of readFile or load thrown on to the caller (a variant of extractPDFInfo)
extractPDFInfoRethrowing(fs, filePath) ==
    IF filePath \in DOMAIN fs /\ fs[filePath].parseable
    THEN [threw |-> FALSE, text |-> pdfSummary(fs[filePath])]
    ELSE [threw |-> TRUE, text |-> <<>>]

extractPDFInfo(fs, filePath) ==
    IF filePath \in DOMAIN fs /\ fs[filePath].parseable
    THEN [threw |-> FALSE, text |-> pdfSummary(fs[filePath])]
    ELSE [threw |-> FALSE, text |-> FallbackText]

\* what the service can answer: a completion whose content is the JSON asked
\* for (complete, or with empty members), a completion without content, a
\* content that is no JSON, an HTTP error status, a network error
ServiceReplies ==
    {[kind |-> "json", title |-> "Quarterly Results", subtitle |-> "Highlights",
      presenter |-> "Jane", professionalSummary |-> "Summary", keyPhrases |-> <<"growth">>],
     [kind |-> "json", title |-> "", subtitle |-> "", presenter |-> "",
      professionalSummary |-> "", keyPhrases |-> <<>>],
     [kind |-> "noContent"],
     [kind |-> "notJson"],
     [kind |-> "httpError"],
     [kind |-> "networkError"]}

\* the value of the catch block of analyzeWithAzureOpenAI
DefaultAnalysis ==
    [title |-> "Professional Presentation",
     subtitle |-> "Industry Insights & Analysis",
     presenter |-> "",
     professionalSummary |-> "Content analysis powered by Azure AI",
     keyPhrases |-> <<>>]

\* a || b on the texts of a suggestion
OrDefault(a, b) == IF a = "" THEN b ELSE a

\* an analysis whose failures escape to the caller (a variant of
\* analyzeWithAzureOpenAI)
analyzeWithAzureOpenAIThrowing(reply) ==
    IF reply.kind # "json"
    THEN [threw |-> TRUE, value |-> DefaultAnalysis]
    ELSE [threw |-> FALSE,
          value |-> [title |-> OrDefault(reply.title, "Professional Presentation"),
                     subtitle |-> OrDefault(reply.subtitle, "Industry Insights & Analysis"),
                     presenter |-> reply.presenter,
                     professionalSummary |-> reply.professionalSummary,
                     keyPhrases |-> reply.keyPhrases]]

\* analyzeWithAzureOpenAI once axios.post has settled with `reply`: a rejected
\* request, a missing content and a content that JSON.parse rejects all end in
\* the catch block
analyzeWithAzureOpenAI(reply) ==
    IF reply.kind \in {"httpError", "networkError", "noContent", "notJson"}
    THEN [threw |-> FALSE, value |-> DefaultAnalysis]
    ELSE [threw |-> FALSE,
          value |-> [title |-> OrDefault(reply.title, "Professional Presentation"),
                     subtitle |-> OrDefault(reply.subtitle, "Industry Insights & Analysis"),
                     presenter |-> OrDefault(reply.presenter, ""),
                     professionalSummary |-> OrDefault(reply.professionalSummary, ""),
                     keyPhrases |-> reply.keyPhrases]]

\* suggestedValues + analysis of the analyze handler; `clock` is new Date()
AnalyzeBody(documentId, openAIAnalysis, clock) ==
    JsonBody([documentId |-> documentId,
              suggestedValues |->
                  [title |-> OrDefault(openAIAnalysis.title, "Professional Presentation"),
                   subtitle |-> OrDefault(openAIAnalysis.subtitle,
                                          "Industry Insights & Analysis"),
                   presenter |-> OrDefault(openAIAnalysis.presenter, ""),
                   date |-> clock,
                   colorScheme |-> DefaultColor,
                   fontFamily |-> "Roboto",
                   titleSize |-> "Medium",
                   titleAlignment |-> "center"],
              analysis |-> [summary |-> openAIAnalysis.professionalSummary,
                            keyPhrases |-> openAIAnalysis.keyPhrases]])

\* the analyze handler: not called, or waiting for / holding the service's reply
NoReply == [kind |-> "none"]

NoAnalyze == [pc |-> "idle", id |-> 0, reply |-> NoReply]

AnalyzeResponse(id, credentials, reply, status, body) ==
    [op |-> "analyze", id |-> id, req |-> [credentials |-> credentials, reply |-> reply],
     status |-> status, body |-> body, storeFailed |-> FALSE, compose |-> "none"]

AnalyzeInit ==
    /\ backend \in Backends
    /\ documents = <<>>
    /\ templates = <<>>
    /\ files = <<>>
    /\ uploadedAs = <<>>
    /\ lastApplied = [i \in DocIds |-> NoRequest]
    /\ resp = [op |-> "start", id |-> 0, req |-> NoRequest, status |-> 0, body |-> NoBody,
               storeFailed |-> FALSE, compose |-> "none"]
    /\ faults = 0
    /\ input = NoInput
    /\ runs = <<>>
    /\ now = 0
    /\ inflight = NoAnalyze

\* the handler up to axios.post: 404 without the document, 400 without the
\* credentials of the service, else the request to the service is sent
AnalyzeCall(id, credentials) ==
    /\ inflight.pc = "idle"
    /\ LET d == getDocument(id, FALSE)
           pdfText == IF d.found THEN extractPDFInfo(files, originalPdfPathOf(d.document))
                      ELSE extractPDFInfo(files, <<>>)
       IN  IF ~d.found
           THEN /\ resp' = AnalyzeResponse(id, credentials, NoReply, 404, NoBody)
                /\ inflight' = inflight
           ELSE IF ~credentials
           THEN /\ resp' = AnalyzeResponse(id, credentials, NoReply, 400,
                                           JsonBody([missingCredentials |-> TRUE]))
                /\ inflight' = inflight
           ELSE /\ resp' = resp
                /\ inflight' = [pc |-> "awaitService", id |-> id, reply |-> NoReply]
    /\ UNCHANGED <<backend, documents, templates, files, uploadedAs, lastApplied,
                   faults, input, runs, now>>

\* the service answers, or the connection fails: the promise of axios.post settles
ServiceAnswers(reply) ==
    /\ inflight.pc = "awaitService"
    /\ inflight' = [inflight EXCEPT !.pc = "settled", !.reply = reply]
    /\ UNCHANGED <<backend, documents, templates, files, uploadedAs, lastApplied, resp,
                   faults, input, runs, now>>

\* the handler after the await: the suggestion is sent, 500 if the analysis threw
AnalyzeReturn ==
    /\ inflight.pc = "settled"
    /\ LET openAIAnalysis == analyzeWithAzureOpenAI(inflight.reply)
       IN  resp' = IF openAIAnalysis.threw
                   THEN AnalyzeResponse(inflight.id, TRUE, inflight.reply, 500, NoBody)
                   ELSE AnalyzeResponse(inflight.id, TRUE, inflight.reply, 200,
                                        AnalyzeBody(inflight.id, openAIAnalysis.value, now))
    /\ inflight' = NoAnalyze
    /\ UNCHANGED <<backend, documents, templates, files, uploadedAs, lastApplied,
                   faults, input, runs, now>>

AnalyzeNext ==
    \/ SeedTemplates
    \/ \E bytes \in ServerUploads : Upload(bytes, "none")
    \/ \E id \in DocIds, body \in CustomizeBodies : Customize(id, body, "none")
    \/ \E id \in DocIds : Download(id, "none")
    \/ \E id \in DocIds, credentials \in BOOLEAN : AnalyzeCall(id, credentials)
    \/ \E reply \in ServiceReplies : ServiceAnswers(reply)
    \/ AnalyzeReturn

\* the event loop resumes a handler whose promise has settled; nothing obliges
\* the service to answer
AnalyzeSpec == AnalyzeInit /\ [][AnalyzeNext]_vars /\ WF_vars(AnalyzeReturn)

\* C13: whatever the outcome of an analyze request, no step of it changes the
\* stored documents, the templates or the files, so customize and download find
\* the state they would have found without it; and when the service fails in any
\* way analyzeWithAzureOpenAI does not throw: the request is answered 200 with
\* the fixed default suggestion.
AnalyzeNeverAltersComposition ==
    [][/\ (inflight' # inflight \/ resp'.op = "analyze") =>
             /\ documents' = documents
             /\ templates' = templates
             /\ files' = files
             /\ lastApplied' = lastApplied
       /\ (resp'.op = "analyze" /\ resp'.req.reply.kind \notin {"none", "json"}) =>
             /\ resp'.status = 200
             /\ resp'.body = AnalyzeBody(resp'.id, DefaultAnalysis, now)]_vars

\* an analyze of a customized document was answered after the service failed
AnalyzeFailedService ==
    /\ resp.op = "analyze"
    /\ resp.req.reply.kind = "networkError"
    /\ resp.id \in 1..Len(documents)
    /\ documents[resp.id].isModified

\* C14: every analyze request that was sent to the suggestion service is
\* eventually answered, even when the service never answers.
AnalyzeEventuallyAnswers ==
    (inflight.pc = "awaitService") ~> (inflight.pc = "idle")

(***************************************************************************)
(* RenderSpec: the two renderers of the cover,                             *)
(* generateCustomizedCoverPreview and generateModifiedPdf, each applied to *)
(* one template and one customization drawn in the initial state; a run    *)
(* records the draw operations of the cover page it wrote.                 *)
(***************************************************************************)
RenderInit ==
    /\ backend = "db"
    /\ documents = <<>>
    /\ templates = SeedTemplateNames
    /\ input \in [original : {OriginalPdf(1)}, template : ComposeTemplates,
                  customizations : RenderCustomizations]
    /\ files = [p \in {originalPdfPathOf(ComposeDocument(1))} |-> input.original]
    /\ uploadedAs = <<>>
    /\ lastApplied = [i \in DocIds |-> NoRequest]
    /\ resp = [op |-> "start", id |-> 0, req |-> NoRequest, status |-> 0, body |-> NoBody,
               storeFailed |-> FALSE, compose |-> "none"]
    /\ faults = 0
    /\ runs = <<>>
    /\ now = 0
    /\ inflight = <<>>

\* the draw operations of the first page of the file at `path`
CoverOpsAt(fs, path) == fs[path].pages[1].ops

\* generateModifiedPdf for document 1
RenderCover ==
    /\ Len(runs) < MaxRuns
    /\ LET document == ComposeDocument(1)
           outputPath == modifiedPdfPathOf(document)
           g == generateModifiedPdf(files, originalPdfPathOf(document), outputPath,
                                    input.template, input.customizations, TRUE, now)
       IN  /\ files' = g.files
           /\ runs' = Append(runs,
                  [fn |-> "generateModifiedPdf", outcome |-> g.outcome,
                   ops |-> IF g.outcome = "ok" THEN CoverOpsAt(g.files, outputPath)
                           ELSE <<>>])
    /\ UNCHANGED <<backend, documents, templates, uploadedAs, lastApplied, resp, faults,
                   input, now, inflight>>

\* generateCustomizedCoverPreview for document 1
RenderPreview ==
    /\ Len(runs) < MaxRuns
    /\ LET document == ComposeDocument(1)
           g == generateCustomizedCoverPreview(files, document, input.template,
                                               input.customizations, TRUE, now)
       IN  /\ files' = g.files
           /\ runs' = Append(runs,
                  [fn |-> "generateCustomizedCoverPreview", outcome |-> g.outcome,
                   ops |-> IF g.outcome = "ok"
                           THEN CoverOpsAt(g.files, previewPathOf(document))
                           ELSE <<>>])
    /\ UNCHANGED <<backend, documents, templates, uploadedAs, lastApplied, resp, faults,
                   input, now, inflight>>

RenderNext == RenderCover \/ RenderPreview

RenderSpec == RenderInit /\ [][RenderNext]_vars

\* the texts of the customization under test are all in WinAnsi
RenderEncodable ==
    /\ CanEncode(input.customizations.title)
    /\ CanEncode(input.customizations.subtitle)
    /\ CanEncode(input.customizations.presenter)
    /\ CanEncode(input.customizations.date)

\* the positions of the draw operations of kind `op` in ops
OpsOfKind(ops, op) == {i \in 1..Len(ops) : ops[i].op = op}

BottomTexts(ops, y) ==
    {i \in OpsOfKind(ops, "text") : ops[i].x = <<50, 1>> /\ ops[i].y = <<y, 1>>}

\* C16: for every template and customization, the rendered cover has a text
\* 'Presented by: <presenter>' (at the bottom, y = 100) if and only if presenter
\* is not empty, and a text with the date (y = 70) if and only if date is not
\* empty; the date is below the presenter line and drawn after it.
PresenterAndDateWhenGiven ==
    \A k \in 1..Len(runs) :
        runs[k].outcome = "ok" =>
            LET ops == runs[k].ops
                c == input.customizations
            IN  /\ (BottomTexts(ops, 100) # {}) <=> (c.presenter # <<>>)
                /\ (BottomTexts(ops, 70) # {}) <=> (c.date # <<>>)
                /\ Cardinality(BottomTexts(ops, 100)) <= 1
                /\ Cardinality(BottomTexts(ops, 70)) <= 1
                /\ \A i \in BottomTexts(ops, 100) :
                      ops[i].text =
                         <<80,114,101,115,101,110,116,101,100,32,98,121,58,32>> \o c.presenter
                /\ \A j \in BottomTexts(ops, 70) : ops[j].text = c.date
                /\ \A i \in BottomTexts(ops, 100), j \in BottomTexts(ops, 70) :
                      i < j /\ ops[j].y[1] < ops[i].y[1]
                /\ Cardinality(OpsOfKind(ops, "text"))
                      = 2 + Cardinality(BottomTexts(ops, 100))
                          + Cardinality(BottomTexts(ops, 70))

\* a cover with a date and no presenter was rendered by the preview renderer
DateWithoutPresenterRendered ==
    \E k \in 1..Len(runs) :
        /\ runs[k].fn = "generateCustomizedCoverPreview"
        /\ runs[k].outcome = "ok"
        /\ input.customizations.presenter = <<>>
        /\ input.customizations.date # <<>>

\* C17: in every render, for every template name, the first draw operation is
\* the white rectangle over the whole page, the shapes of the template follow
\* it, and every text (title, subtitle, presenter, date) comes after every shape.
BackgroundShapesThenTexts ==
    \A k \in 1..Len(runs) :
        runs[k].outcome = "ok" =>
            LET ops == runs[k].ops
            IN  /\ ops[1] =
                      [op |-> "rect", x |-> <<0, 1>>, y |-> <<0, 1>>,
                       width |-> <<612, 1>>, height |-> <<792, 1>>,
                       color |-> [r |-> <<1, 1>>, g |-> <<1, 1>>, b |-> <<1, 1>>]]
                /\ \A i \in OpsOfKind(ops, "rect"), j \in OpsOfKind(ops, "text") : i < j
                /\ Cardinality(OpsOfKind(ops, "rect")) >= 2
                /\ Cardinality(OpsOfKind(ops, "text")) >= 2
                /\ OpsOfKind(ops, "rect") \cup OpsOfKind(ops, "text") = 1..Len(ops)

\* the ten bars of 'Modern Gradient' and four texts were drawn by generateModifiedPdf
GradientWithAllTexts ==
    \E k \in 1..Len(runs) :
        /\ runs[k].fn = "generateModifiedPdf"
        /\ runs[k].outcome = "ok"
        /\ input.template.name = "Modern Gradient"
        /\ Cardinality(OpsOfKind(runs[k].ops, "rect")) = 11
        /\ Cardinality(OpsOfKind(runs[k].ops, "text")) = 4

(***************************************************************************)
(* StyleSpec: the three style helpers getTitleSize, getTitleX and hexToRgb *)
(* applied to arguments drawn in the initial state; a run records the      *)
(* function called and what it returned.                                   *)
(***************************************************************************)
\* the missing argument (undefined): the switches compare with ===, so it
\* equals no label
Undefined == "undefined"

\* values of customizations.titleSize
TitleSizes == {"Small", "Medium", "Large", "Extra Large", "", Undefined, "small", "Huge"}

\* values of customizations.titleAlignment
Alignments == {"left", "right", "center", "", Undefined, "Left", "justify"}

\* page widths
Widths == {612, 595, 101}

\* title texts
Titles == {<<81, 51>>, <<65, 32, 118, 101, 114, 121, 32, 108, 111, 110, 103, 32, 116, 105, 116, 108, 101>>}

\* colour strings that match the pattern
HexMatching ==
    { <<"#","0","0","7","7","B","5">>, <<"0","0","7","7","b","5">>,
      <<"#","F","F","F","F","F","F">>, <<"#","f","f","8","0","0","0">>,
      <<"#","0","0","0","0","0","0">>, <<"a","B","c","D","e","F">> }

\* colour strings that do not match it
HexNotMatching ==
    { <<>>, <<"#">>, <<"#","f","f","f">>, <<"#","1","2","3","4","5">>,
      <<"#","0","0","7","7","B","5","F","F">>, <<"#","G","G","0","0","0","0">>,
      <<"#","#","0","0","7","7","B","5">>, <<"0","0","7","7","B","5","#">>,
      <<" ","#","0","0","7","7","B","5">>, <<"#","0","0","7","7","B","5"," ">>,
      <<"r","e","d">>, <<"0","x","0","0","7","7","B","5">> }

HexStrings == HexMatching \cup HexNotMatching

StyleInit ==
    /\ backend = "db"
    /\ documents = <<>>
    /\ templates = SeedTemplateNames
    /\ input \in [titleSize : TitleSizes, titleAlignment : Alignments, width : Widths,
                  title : Titles, hex : HexStrings]
    /\ files = <<>>
    /\ uploadedAs = <<>>
    /\ lastApplied = [i \in DocIds |-> NoRequest]
    /\ resp = [op |-> "start", id |-> 0, req |-> NoRequest, status |-> 0, body |-> NoBody,
               storeFailed |-> FALSE, compose |-> "none"]
    /\ faults = 0
    /\ runs = <<>>
    /\ now = 0
    /\ inflight = <<>>

\* const titleSize = getTitleSize(customizations.titleSize)
CallGetTitleSize ==
    /\ Len(runs) < MaxRuns
    /\ runs' = Append(runs, [fn |-> "getTitleSize", result |-> getTitleSize(input.titleSize)])
    /\ UNCHANGED <<backend, documents, templates, files, uploadedAs, lastApplied, resp,
                   faults, input, now, inflight>>

\* the x of the title text on a cover drawn for the title and alignment of input
DrawnTitleX ==
    LET c == [CustBare EXCEPT !.title = input.title,
                              !.titleAlignment = IF input.titleAlignment = Undefined
                                                 THEN "" ELSE input.titleAlignment]
        ops == CoverDrawOps(CHOOSE t \in ComposeTemplates : t.name = "Minimal White", c)
        i == CHOOSE j \in 1..Len(ops) : ops[j].op = "text" /\ ops[j].text = input.title
    IN  ops[i].x

\* const titleX = getTitleX(customizations.titleAlignment, width)
CallGetTitleX ==
    /\ Len(runs) < MaxRuns
    /\ runs' = Append(runs, [fn |-> "getTitleX",
                             result |-> getTitleX(input.titleAlignment, input.width),
                             drawn |-> DrawnTitleX])
    /\ UNCHANGED <<backend, documents, templates, files, uploadedAs, lastApplied, resp,
                   faults, input, now, inflight>>

\* const color = hexToRgb(...)
CallHexToRgb ==
    /\ Len(runs) < MaxRuns
    /\ runs' = Append(runs, [fn |-> "hexToRgb", result |-> hexToRgb(input.hex)])
    /\ UNCHANGED <<backend, documents, templates, files, uploadedAs, lastApplied, resp,
                   faults, input, now, inflight>>

StyleNext == CallGetTitleSize \/ CallGetTitleX \/ CallHexToRgb

StyleSpec == StyleInit /\ [][StyleNext]_vars

\* C18: getTitleSize returns a size for every argument: 24 for 'Small', 32 for
\* 'Medium', 40 for 'Large', 48 for 'Extra Large', and 32 for every other
\* value (empty, missing, differently cased, unknown).
TitleSizeTable ==
    \A k \in 1..Len(runs) :
        runs[k].fn = "getTitleSize" =>
            runs[k].result =
                IF input.titleSize = "Small" THEN 24
                ELSE IF input.titleSize = "Large" THEN 40
                ELSE IF input.titleSize = "Extra Large" THEN 48
                ELSE 32

\* getTitleSize was called with the lower-case label 'small'
LowerCaseSizeAsked ==
    /\ input.titleSize = "small"
    /\ \E k \in 1..Len(runs) : runs[k].fn = "getTitleSize" /\ runs[k].result = 32

\* C19: getTitleX returns an x for every alignment and page width: 50 for
\* 'left', pageWidth - 50 for 'right', pageWidth / 2 for 'center' and for every
\* other or missing value (306 on the 612-point page); the x of the title drawn
\* on the cover is that value whatever the title text.
TitleXRule ==
    \A k \in 1..Len(runs) :
        runs[k].fn = "getTitleX" =>
            LET x == runs[k].result
                d == runs[k].drawn
            IN  /\ input.titleAlignment = "left" => x = <<50, 1>> /\ d = <<50, 1>>
                /\ input.titleAlignment = "right" =>
                      x = <<input.width - 50, 1>> /\ d = <<562, 1>>
                /\ input.titleAlignment \notin {"left", "right"} =>
                      /\ 2 * x[1] = input.width * x[2]
                      /\ input.width = 612 => x = <<306, 1>>
                      /\ d = <<306, 1>>

\* getTitleX was called without an alignment, for the long title, on a page of odd width
MissingAlignmentAsked ==
    /\ input.titleAlignment = Undefined
    /\ input.width = 101
    /\ Len(input.title) > 2
    /\ \E k \in 1..Len(runs) : runs[k].fn = "getTitleX" /\ runs[k].result = <<101, 2>>

\* the digits of a colour string without its leading '#'
HexDigitsOf(hex) == IF Len(hex) = 7 THEN Tail(hex) ELSE hex

\* the value of one hexadecimal digit, by table
HexDigitValue(c) ==
    CASE c \in {"0"} -> 0 [] c \in {"1"} -> 1 [] c \in {"2"} -> 2 [] c \in {"3"} -> 3
      [] c \in {"4"} -> 4 [] c \in {"5"} -> 5 [] c \in {"6"} -> 6 [] c \in {"7"} -> 7
      [] c \in {"8"} -> 8 [] c \in {"9"} -> 9 [] c \in {"a", "A"} -> 10
      [] c \in {"b", "B"} -> 11 [] c \in {"c", "C"} -> 12 [] c \in {"d", "D"} -> 13
      [] c \in {"e", "E"} -> 14 [] c \in {"f", "F"} -> 15

\* C20: hexToRgb returns a colour for every string: for six hexadecimal digits
\* of either case after an optional single '#', each channel is the value of
\* its two digits divided by 255 and lies in [0,1]; for every other string the
\* colour is black (0,0,0).
HexToRgbTotal ==
    \A k \in 1..Len(runs) :
        runs[k].fn = "hexToRgb" =>
            LET c == runs[k].result
                d == HexDigitsOf(input.hex)
                Group(i) == 16 * HexDigitValue(d[2 * i - 1]) + HexDigitValue(d[2 * i])
                Is(channel, i) == /\ channel[1] * 255 = Group(i) * channel[2]
                                  /\ channel[2] > 0
                                  /\ 0 <= channel[1] /\ channel[1] <= channel[2]
            IN  /\ input.hex \in HexMatching =>
                      Is(c.r, 1) /\ Is(c.g, 2) /\ Is(c.b, 3)
                /\ input.hex \in HexNotMatching =>
                      c = [r |-> <<0, 1>>, g |-> <<0, 1>>, b |-> <<0, 1>>]

\* hexToRgb was called with the lower-case string '0077b5' and returned (0, 119/255, 181/255)
LowerCaseHexAsked ==
    /\ input.hex = <<"0","0","7","7","b","5">>
    /\ \E k \in 1..Len(runs) :
          /\ runs[k].fn = "hexToRgb"
          /\ runs[k].result = [r |-> <<0, 1>>, g |-> <<7, 15>>, b |-> <<181, 255>>]

(***************************************************************************)
(* FontSpec: the two renderers applied to a customization whose font label *)
(* is drawn in the initial state; a run records the fonts of the texts of  *)
(* the cover it drew.                                                      *)
(***************************************************************************)
\* values of customizations.fontFamily ("" stands for the empty and the missing label)
FontLabels ==
    {"Roboto", "Open Sans", "Montserrat", "Playfair Display", "Raleway", "",
     "playfair display", "Times Roman", "Helvetica", "Comic Sans"}

FontInit ==
    /\ backend = "db"
    /\ documents = <<>>
    /\ templates = SeedTemplateNames
    /\ input \in [fontFamily : FontLabels, template : ComposeTemplates,
                  customizations : {CustQ3, CustBare}]
    /\ files = <<>>
    /\ uploadedAs = <<>>
    /\ lastApplied = [i \in DocIds |-> NoRequest]
    /\ resp = [op |-> "start", id |-> 0, req |-> NoRequest, status |-> 0, body |-> NoBody,
               storeFailed |-> FALSE, compose |-> "none"]
    /\ faults = 0
    /\ runs = <<>>
    /\ now = 0
    /\ inflight = <<>>

\* the fonts of the text operations of ops
FontsOf(ops) == {ops[i].font : i \in {j \in 1..Len(ops) : ops[j].op = "text"}}

\* the customization of input with the font label of input
FontCustomization == [input.customizations EXCEPT !.fontFamily = input.fontFamily]

\* the cover drawn by generateModifiedPdf
FontOfCover ==
    /\ Len(runs) < MaxRuns
    /\ runs' = Append(runs, [fn |-> "generateModifiedPdf",
                             fonts |-> FontsOf(CoverDrawOps(input.template,
                                                            FontCustomization))])
    /\ UNCHANGED <<backend, documents, templates, files, uploadedAs, lastApplied, resp,
                   faults, input, now, inflight>>

\* the cover drawn by generateCustomizedCoverPreview
FontOfPreview ==
    /\ Len(runs) < MaxRuns
    /\ runs' = Append(runs, [fn |-> "generateCustomizedCoverPreview",
                             fonts |-> FontsOf(PreviewDrawOps(input.template,
                                                              FontCustomization))])
    /\ UNCHANGED <<backend, documents, templates, files, uploadedAs, lastApplied, resp,
                   faults, input, now, inflight>>

FontNext == FontOfCover \/ FontOfPreview

FontSpec == FontInit /\ [][FontNext]_vars

\* C21: every font label resolves to one of two fonts: 'Playfair Display' to
\* Times Roman, every other label (Roboto, Open Sans, Montserrat, Raleway, the
\* empty label, an unknown or differently cased label) to Helvetica; the
\* preview renderer and the download renderer resolve a label to the same font.
FontResolutionTwoValued ==
    /\ \A k \in 1..Len(runs) :
          runs[k].fonts = IF input.fontFamily = "Playfair Display"
                          THEN {"TimesRoman"} ELSE {"Helvetica"}
    /\ \A j, k \in 1..Len(runs) : runs[j].fonts = runs[k].fonts

\* both renderers drew a cover with the label Raleway
RalewayInBothRenderers ==
    /\ input.fontFamily = "Raleway"
    /\ \E j, k \in 1..Len(runs) :
          /\ runs[j].fn = "generateModifiedPdf"
          /\ runs[k].fn = "generateCustomizedCoverPreview"
          /\ runs[j].fonts = {"Helvetica"} /\ runs[k].fonts = {"Helvetica"}

(***************************************************************************)
(* SeedSpec: seedTemplates (seed.ts), called once by every start of the    *)
(* server, on one database.  A call is two awaited statements: the select  *)
(* of the existing rows, then, if there was none, the insert of the six    *)
(* rows; either statement can reject, and then the call throws.            *)
(***************************************************************************)
Seeders == 1..MaxSeeders

\* a call of seedTemplates: where it is and the number of rows its select returned
SeedCall(pc, existing) == [pc |-> pc, existing |-> existing]

SeedInit ==
    /\ backend = "db"
    /\ documents = <<>>
    /\ templates = <<>>
    /\ input = NoInput
    /\ files = <<>>
    /\ uploadedAs = <<>>
    /\ lastApplied = [i \in DocIds |-> NoRequest]
    /\ resp = [op |-> "start", id |-> 0, req |-> NoRequest, status |-> 0, body |-> NoBody,
               storeFailed |-> FALSE, compose |-> "none"]
    /\ faults = 0
    /\ runs = <<>>
    /\ now = 0
    /\ inflight = [s \in Seeders |-> SeedCall("idle", 0)]

\* a server starts and calls seedTemplates; `now` counts the calls
SeedStart(s) ==
    /\ inflight[s].pc \in {"idle", "returned", "threw"}
    /\ now < MaxCalls
    /\ now' = now + 1
    /\ inflight' = [inflight EXCEPT ![s] = SeedCall("select", 0)]
    /\ UNCHANGED <<backend, documents, templates, files, uploadedAs, lastApplied, resp,
                   faults, input, runs>>

\* const existingTemplates = await db.select().from(templates)
SeedSelect(s, dbOk) ==
    /\ inflight[s].pc = "select"
    /\ inflight' = [inflight EXCEPT ![s] =
                       IF dbOk THEN SeedCall("selected", Len(templates))
                       ELSE SeedCall("threw", 0)]
    /\ UNCHANGED <<backend, documents, templates, files, uploadedAs, lastApplied, resp,
                   faults, input, runs, now>>

\* if (existingTemplates.length === 0) await db.insert(templates).values([six rows])
SeedInsert(s, dbOk) ==
    /\ inflight[s].pc = "selected"
    /\ IF inflight[s].existing # 0
       THEN /\ templates' = templates
            /\ inflight' = [inflight EXCEPT ![s].pc = "returned"]
       ELSE IF dbOk
       THEN /\ templates' = templates \o SeedTemplateNames
            /\ inflight' = [inflight EXCEPT ![s].pc = "returned"]
       ELSE /\ templates' = templates
            /\ inflight' = [inflight EXCEPT ![s].pc = "threw"]
    /\ UNCHANGED <<backend, documents, files, uploadedAs, lastApplied, resp, faults,
                   input, runs, now>>

SeedNext ==
    \E s \in Seeders :
        \/ SeedStart(s)
        \/ \E dbOk \in BOOLEAN : SeedSelect(s, dbOk)
        \/ \E dbOk \in BOOLEAN : SeedInsert(s, dbOk)

SeedSpec == SeedInit /\ [][SeedNext]_vars

\* C22: after any number of seedTemplates calls the catalog holds the six
\* fixed templates and nothing else, each name once: the catalog is never
\* anything but empty (no call has inserted yet) or the six rows, and once a
\* call has returned without throwing it is the six rows.
SeedingIdempotent ==
    /\ templates \in {<<>>, SeedTemplateNames}
    /\ (\E s \in Seeders : inflight[s].pc = "returned") => templates = SeedTemplateNames

(***************************************************************************)
(* ExtractSpec: extractPDFInfo applied to the file of document 1, which is *)
(* a PDF with or without document information, bytes that are no PDF, or   *)
(* absent, and to the path of document 2, where there is no file.          *)
(***************************************************************************)
\* a PDF of n pages with the document information info
PdfWithInfo(n, info) ==
    [parseable |-> TRUE, pages |-> [i \in 1..n |-> OriginalPage(i)], created |-> 0,
     info |-> info]

\* the files extractPDFInfo is given; "absent" stands for no file at the path
ExtractFiles ==
    {[kind |-> "pdf", bytes |-> PdfWithInfo(n, info)] :
        n \in {0, 1, MaxPages},
        info \in [title : {"", "Q3 Results"}, author : {"", "Jane"},
                  subject : {"", "Finance"}, keywords : {"", "q3, results"},
                  creator : {"", "Keynote"}]}
    \cup {[kind |-> "pdf", bytes |-> OriginalPdf(2)],
          [kind |-> "notPdf", bytes |-> NotAPdf],
          [kind |-> "absent", bytes |-> NotAPdf]}

ExtractInit ==
    /\ backend = "db"
    /\ documents = <<>>
    /\ templates = SeedTemplateNames
    /\ input \in ExtractFiles
    /\ files = IF input.kind = "absent" THEN <<>>
               ELSE [p \in {originalPdfPathOf(ComposeDocument(1))} |-> input.bytes]
    /\ uploadedAs = <<>>
    /\ lastApplied = [i \in DocIds |-> NoRequest]
    /\ resp = [op |-> "start", id |-> 0, req |-> NoRequest, status |-> 0, body |-> NoBody,
               storeFailed |-> FALSE, compose |-> "none"]
    /\ faults = 0
    /\ runs = <<>>
    /\ now = 0
    /\ inflight = <<>>

\* const pdfText = await extractPDFInfo(pdfPath), for the original of document d
ExtractInfo(d) ==
    /\ Len(runs) < MaxRuns
    /\ LET filePath == originalPdfPathOf(ComposeDocument(d))
           r == extractPDFInfo(files, filePath)
       IN  runs' = Append(runs, [document |-> d, threw |-> r.threw, text |-> r.text])
    /\ UNCHANGED <<backend, documents, templates, files, uploadedAs, lastApplied, resp,
                   faults, input, now, inflight>>

ExtractNext == \E d \in ComposeDocs : ExtractInfo(d)

ExtractSpec == ExtractInit /\ [][ExtractNext]_vars

\* C23: extractPDFInfo never rejects: when the file cannot be read or its
\* bytes cannot be loaded as a PDF it returns the fixed sentence 'Unable to
\* extract PDF information. ...'; for a PDF it returns the summary.
ExtractNeverRejects ==
    \A k \in 1..Len(runs) :
        /\ ~runs[k].threw
        /\ (runs[k].document = 2 \/ input.kind \in {"absent", "notPdf"}) =>
              /\ Len(runs[k].text) = 1
              /\ runs[k].text[1] = "Unable to extract PDF information. Please generate professional content based on LinkedIn best practices."
        /\ (runs[k].document = 1 /\ input.kind = "pdf") =>
              /\ runs[k].text[1] = "PDF Document Information:\n"
              /\ \E i \in 1..(Len(runs[k].text) - 1) :
                    /\ runs[k].text[i] = "Total Pages: "
                    /\ runs[k].text[i + 1] = ToString(Len(input.bytes.pages))

\* extractPDFInfo ran on bytes that are no PDF and on a path without a file
UnreadableAndUnloadable ==
    /\ input.kind = "notPdf"
    /\ \E j, k \in 1..Len(runs) : runs[j].document = 1 /\ runs[k].document = 2

(***************************************************************************)
(* ExtractTextSpec: extractTextFromPDF and extractFirstPageText            *)
(* (simplePdfExtractor.ts) applied to one file with a page limit drawn in  *)
(* the initial state.  pdf-parse is given the bytes and { max: maxPages }; *)
(* it reads the first max pages, all of them when max is not positive, and *)
(* it can reject.                                                          *)
(***************************************************************************)
\* the first argument only (a variant of MathMin)
MathMinFirst(a, b) == a

\* Math.min(a, b)
MathMin(a, b) == IF a < b THEN a ELSE b

\* the default of the parameter maxPages
DefaultMaxPages == 3

\* pdf-parse: the numbers of the pages whose text it returns
pdfParse(bytes, options) ==
    LET counter == IF options.max <= 0 THEN Len(bytes.pages) ELSE options.max
    IN  [text |-> [i \in 1..MathMin(counter, Len(bytes.pages)) |-> bytes.pages[i].no]]

\* the function returned by getPdfParse when pdf-parse cannot be imported
pdfParseFallback(bytes, options) ==
    [text |-> <<"Text extraction unavailable - using metadata only">>]

\* extractTextFromPDF(filePath, maxPages): the options given to the parser
\* and the text, as the sequence of the pieces appended to extractedText
extractTextFromPDF(fs, filePath, maxPages, parser) ==
    IF ~(filePath \in DOMAIN fs /\ fs[filePath].parseable) \/ parser = "rejects"
    THEN [threw |-> TRUE, options |-> [max |-> maxPages], header |-> <<>>, text |-> <<>>]
    ELSE LET bytes == fs[filePath]
             totalPages == Len(bytes.pages)
             title == IF InfoOf(bytes).title = "" THEN "Untitled Document"
                      ELSE InfoOf(bytes).title
             author == IF InfoOf(bytes).author = "" THEN "Unknown Author"
                       ELSE InfoOf(bytes).author
             subject == InfoOf(bytes).subject
             keywords == InfoOf(bytes).keywords
             options == [max |-> maxPages]
             data == IF parser = "unavailable" THEN pdfParseFallback(bytes, options)
                     ELSE pdfParse(bytes, options)
         IN  [threw |-> FALSE,
              options |-> options,
              header |-> <<"Title: ", title, "\nAuthor: ", author, "\n">>
                         \o (IF subject # "" THEN <<"Subject: ", subject, "\n">> ELSE <<>>)
                         \o (IF keywords # "" THEN <<"Keywords: ", keywords, "\n">> ELSE <<>>)
                         \o <<"\n--- Document Text (First ",
                              ToString(MathMin(maxPages, totalPages)), " pages) ---\n\n">>,
              text |-> data.text]

\* extractFirstPageText(filePath)
extractFirstPageText(fs, filePath, parser) == extractTextFromPDF(fs, filePath, 1, parser)

\* page limits asked for: none of the pages, some, all, more than there are
MaxPagesAsked == 0..(MaxPages + 2)

ExtractTextInit ==
    /\ backend = "db"
    /\ documents = <<>>
    /\ templates = SeedTemplateNames
    /\ input \in [bytes : {PdfWithInfo(n, info) :
                              n \in 0..MaxPages,
                              info \in {NoInfo,
                                        [title |-> "Q3 Results", author |-> "Jane",
                                         subject |-> "Finance", keywords |-> "q3",
                                         creator |-> ""]}}
                           \cup {NotAPdf},
                  maxPages : MaxPagesAsked,
                  parser : {"ok", "rejects", "unavailable"}]
    /\ files = [p \in {originalPdfPathOf(ComposeDocument(1))} |-> input.bytes]
    /\ uploadedAs = <<>>
    /\ lastApplied = [i \in DocIds |-> NoRequest]
    /\ resp = [op |-> "start", id |-> 0, req |-> NoRequest, status |-> 0, body |-> NoBody,
               storeFailed |-> FALSE, compose |-> "none"]
    /\ faults = 0
    /\ runs = <<>>
    /\ now = 0
    /\ inflight = <<>>

\* a run: the limit asked for and what the call returned
ExtractTextRun(maxPages, r) ==
    [maxPages |-> maxPages, threw |-> r.threw, options |-> r.options,
     header |-> r.header, text |-> r.text]

\* extractTextFromPDF(filePath, maxPages)
ExtractText ==
    /\ Len(runs) < MaxRuns
    /\ runs' = Append(runs, ExtractTextRun(input.maxPages,
                  extractTextFromPDF(files, originalPdfPathOf(ComposeDocument(1)),
                                     input.maxPages, input.parser)))
    /\ UNCHANGED <<backend, documents, templates, files, uploadedAs, lastApplied, resp,
                   faults, input, now, inflight>>

\* extractTextFromPDF(filePath): maxPages takes its default
ExtractTextDefault ==
    /\ Len(runs) < MaxRuns
    /\ runs' = Append(runs, ExtractTextRun(DefaultMaxPages,
                  extractTextFromPDF(files, originalPdfPathOf(ComposeDocument(1)),
                                     DefaultMaxPages, input.parser)))
    /\ UNCHANGED <<backend, documents, templates, files, uploadedAs, lastApplied, resp,
                   faults, input, now, inflight>>

\* extractFirstPageText(filePath)
ExtractFirstPage ==
    /\ Len(runs) < MaxRuns
    /\ runs' = Append(runs, ExtractTextRun(1,
                  extractFirstPageText(files, originalPdfPathOf(ComposeDocument(1)),
                                       input.parser)))
    /\ UNCHANGED <<backend, documents, templates, files, uploadedAs, lastApplied, resp,
                   faults, input, now, inflight>>

ExtractTextNext == ExtractText \/ ExtractTextDefault \/ ExtractFirstPage

ExtractTextSpec == ExtractTextInit /\ [][ExtractTextNext]_vars

\* C24: for every maxPages and every document of totalPages pages, the header
\* of the text returned by extractTextFromPDF is '--- Document Text (First K
\* pages) ---' with K the smaller of maxPages and totalPages, also for
\* maxPages = 0 and for maxPages > totalPages, and the parser is given
\* max = maxPages.
HeaderReportsMinPages ==
    \A k \in 1..Len(runs) :
        /\ runs[k].options.max = runs[k].maxPages
        /\ ~runs[k].threw =>
              LET totalPages == Len(input.bytes.pages)
                  K == IF runs[k].maxPages <= totalPages THEN runs[k].maxPages
                       ELSE totalPages
                  n == Len(runs[k].header)
              IN  /\ n >= 3
                  /\ runs[k].header[n - 2] = "\n--- Document Text (First "
                  /\ runs[k].header[n - 1] = ToString(K)
                  /\ runs[k].header[n] = " pages) ---\n\n"

\* the text was asked with maxPages = 0 and with more pages than the document has
ZeroAndTooManyPagesAsked ==
    /\ input.maxPages = 0
    /\ Len(input.bytes.pages) = 2
    /\ \E j, k \in 1..Len(runs) :
          /\ ~runs[j].threw /\ runs[j].maxPages = 0
          /\ runs[j].header[Len(runs[j].header) - 1] = "0"
          /\ Len(runs[j].text) = 2
          /\ ~runs[k].threw /\ runs[k].maxPages = DefaultMaxPages
          /\ runs[k].header[Len(runs[k].header) - 1] = "2"

(***************************************************************************)
(* CustomizeRaceSpec: customize requests in flight together.  A handler    *)
(* awaits storage.getDocument and storage.getTemplate, then                *)
(* storage.updateDocumentCustomizations, then                              *)
(* generateCustomizedCoverPreview, whose last await is the fs.writeFile of *)
(* cover-<id>.pdf; other handlers run between the awaits.                  *)
(***************************************************************************)
\* the locals of a customize handler: where it is, the document id, the
\* request body, the template it found, the status it answered
CustomizeHandler(pc, id, body, template, status) ==
    [pc |-> pc, id |-> id, body |-> body, template |-> template, status |-> status]

NoTemplate == [id |-> 0, name |-> ""]

CustomizeIdle == CustomizeHandler("idle", 0, NoRequest, NoTemplate, 0)

CustomizeRaceInit ==
    /\ backend \in Backends
    /\ documents = <<>>
    /\ templates = <<>>
    /\ files = <<>>
    /\ uploadedAs = <<>>
    /\ lastApplied = [i \in DocIds |-> NoRequest]
    /\ resp = [op |-> "start", id |-> 0, req |-> NoRequest, status |-> 0, body |-> NoBody,
               storeFailed |-> FALSE, compose |-> "none"]
    /\ faults = 0
    /\ input = NoInput
    /\ runs = <<>>
    /\ now = 0
    /\ inflight = [r \in Requests |-> CustomizeIdle]

\* POST /api/documents/:id/customize up to the return of storage.getTemplate
CustomizeLoad(r, id, body) ==
    /\ inflight[r].pc \in {"idle", "done"}
    /\ LET d == getDocument(id, FALSE)
           t == getTemplate(body.templateId, FALSE)
       IN  inflight' = [inflight EXCEPT ![r] =
              IF ~d.found THEN CustomizeHandler("done", id, body, NoTemplate, 404)
              ELSE IF body.templateId = 0 \/ body.customizations.type = "null"
              THEN CustomizeHandler("done", id, body, NoTemplate, 400)
              ELSE IF ~t.found THEN CustomizeHandler("done", id, body, NoTemplate, 404)
              ELSE CustomizeHandler("store", id, body, t.template, 0)]
    /\ UNCHANGED <<backend, documents, templates, files, uploadedAs, lastApplied, resp,
                   faults, input, runs, now>>

\* await storage.updateDocumentCustomizations(documentId, updatedCustomizations)
CustomizeStore(r) ==
    /\ inflight[r].pc = "store"
    /\ LET h == inflight[r]
           u == updateDocumentCustomizations(
                    h.id, WithTemplateId(h.body.customizations.value, h.body.templateId),
                    "none")
       IN  /\ documents' = u.documents
           /\ inflight' = [inflight EXCEPT ![r].pc = IF u.threw THEN "done" ELSE "render",
                                           ![r].status = IF u.threw THEN 500 ELSE 0]
    /\ UNCHANGED <<backend, templates, files, uploadedAs, lastApplied, resp, faults,
                   input, runs, now>>

\* await generateCustomizedCoverPreview(document, template, customizations); res.json
CustomizeRender(r) ==
    /\ inflight[r].pc = "render"
    /\ LET h == inflight[r]
           g == generateCustomizedCoverPreview(files, documents[h.id], h.template,
                                               h.body.customizations.value, TRUE, now)
       IN  /\ files' = g.files
           /\ inflight' = [inflight EXCEPT ![r].pc = "done",
                                           ![r].status = IF g.outcome = "ok" THEN 200
                                                         ELSE 500]
    /\ UNCHANGED <<backend, documents, templates, uploadedAs, lastApplied, resp, faults,
                   input, runs, now>>

CustomizeRaceNext ==
    \/ SeedTemplates
    \/ \E bytes \in ServerUploads : Upload(bytes, "none")
    \/ \E r \in Requests, id \in DocIds, body \in CustomizeBodies : CustomizeLoad(r, id, body)
    \/ \E r \in Requests : CustomizeStore(r)
    \/ \E r \in Requests : CustomizeRender(r)

CustomizeRaceSpec == CustomizeRaceInit /\ [][CustomizeRaceNext]_vars

\* C25: whatever the interleaving of customize requests on a document, once
\* all of them have completed (here: each answered 200) the cover preview
\* file of the document is the one rendered from the customization and the
\* template that the document record holds.
PreviewAgreesWithStore ==
    (/\ \A r \in Requests : inflight[r].pc \in {"idle", "done"}
     /\ \A r \in Requests : inflight[r].pc = "done" => inflight[r].status = 200) =>
        \A id \in 1..Len(documents) :
            documents[id].customizations.type # "null" =>
                LET stored == StoredCustomizations(documents[id])
                    previewPath == previewPathOf(documents[id])
                IN  /\ previewPath \in DOMAIN files
                    /\ files[previewPath].pages[1].ops =
                          PreviewDrawOps(getTemplate(stored.templateId, FALSE).template,
                                         stored)

\* C26: customize is all-or-nothing: a customize request answered with an
\* error status leaves the stored customizations and isModified of every
\* document as they were before the request.
CustomizeAllOrNothing ==
    [][(resp'.op = "customize" /\ resp'.status >= 400) => documents' = documents]_vars

(***************************************************************************)
(* RouteSpec: the GET routes of registerRoutes in the order of their       *)
(* registration, and Express's dispatch: a request goes to the first route *)
(* whose pattern matches its path, segment by segment, a ':name' segment   *)
(* matching any one segment.  A path is the sequence of its segments, a    *)
(* segment the sequence of its characters.                                 *)
(***************************************************************************)
SegApi == <<"a","p","i">>
SegDocuments == <<"d","o","c","u","m","e","n","t","s">>
SegRecent == <<"r","e","c","e","n","t">>
SegParamId == <<":","i","d">>
SegPreview == <<"p","r","e","v","i","e","w">>
SegDownloadOriginal == <<"d","o","w","n","l","o","a","d","-","o","r","i","g","i","n","a","l">>
SegCoverPreview == <<"c","o","v","e","r","-","p","r","e","v","i","e","w">>
SegDownload == <<"d","o","w","n","l","o","a","d">>
SegTemplates == <<"t","e","m","p","l","a","t","e","s">>

\* a route: its pattern, whether isAuthenticated stands before its handler, its handler
Route(pattern, guarded, handler) ==
    [pattern |-> pattern, guarded |-> guarded, handler |-> handler]

\* the app.get calls of registerRoutes, in order
GetRoutes ==
    <<Route(<<SegApi, SegDocuments, SegParamId>>, FALSE, "getDocument"),
      Route(<<SegApi, SegDocuments, SegRecent>>, TRUE, "recent"),
      Route(<<SegApi, SegDocuments, SegParamId, SegPreview>>, FALSE, "preview"),
      Route(<<SegApi, SegDocuments, SegParamId, SegDownloadOriginal>>, FALSE,
            "downloadOriginal"),
      Route(<<SegApi, SegDocuments, SegParamId, SegCoverPreview>>, FALSE, "coverPreview"),
      Route(<<SegApi, SegDocuments, SegParamId, SegDownload>>, FALSE, "download"),
      Route(<<SegApi, SegTemplates>>, FALSE, "templates")>>

\* a pattern matches a path: as many segments, each equal or a parameter
RouteMatches(pattern, path) ==
    /\ Len(pattern) = Len(path)
    /\ \A i \in 1..Len(pattern) :
          \/ pattern[i] = path[i]
          \/ pattern[i][1] = ":" /\ Len(path[i]) > 0

\* the first route that matches, 0 when none does
Dispatch(routes, path) ==
    IF \E i \in 1..Len(routes) : RouteMatches(routes[i].pattern, path)
    THEN CHOOSE i \in 1..Len(routes) :
            /\ RouteMatches(routes[i].pattern, path)
            /\ \A j \in 1..(i - 1) : ~RouteMatches(routes[j].pattern, path)
    ELSE 0

Digits == <<"0","1","2","3","4","5","6","7","8","9">>

IsDigit(c) == \E v \in 1..10 : Digits[v] = c

DigitVal(c) == (CHOOSE v \in 1..10 : Digits[v] = c) - 1

\* the decimal digits at the head of chars
RECURSIVE LeadingDigits(_)
LeadingDigits(chars) ==
    IF chars # <<>> /\ IsDigit(chars[1])
    THEN <<chars[1]>> \o LeadingDigits(Tail(chars))
    ELSE <<>>

RECURSIVE DigitsValue(_)
DigitsValue(ds) ==
    IF ds = <<>> THEN 0
    ELSE 10 * DigitsValue(SubSeq(ds, 1, Len(ds) - 1)) + DigitVal(ds[Len(ds)])

\* parseInt(req.params.id): the number of the leading digits, NaN without any
parseInt(chars) ==
    [isNaN |-> LeadingDigits(chars) = <<>>, value |-> DigitsValue(LeadingDigits(chars))]

\* the userId of a row; every upload stores null (0 here)
UserIdOf(row) == IF "userId" \in DOMAIN row THEN row.userId ELSE 0

\* storage.getRecentDocuments(userId)
getRecentDocuments(userId) ==
    SelectSeq(documents, LAMBDA row : UserIdOf(row) = userId)

\* the users of a session; 0 stands for a request without an authenticated session
Sessions == 0..MaxUsers

\* the paths asked with GET
GetPaths ==
    {<<SegApi, SegDocuments, SegRecent>>,
     <<SegApi, SegDocuments, <<"1">>>>,
     <<SegApi, SegDocuments, <<"2">>>>,
     <<SegApi, SegDocuments, <<"1","a">>>>,
     <<SegApi, SegDocuments, <<"a","b","c">>>>,
     <<SegApi, SegDocuments, <<"1">>, SegPreview>>,
     <<SegApi, SegDocuments, SegRecent, SegPreview>>,
     <<SegApi, SegDocuments, <<"1">>, SegCoverPreview>>,
     <<SegApi, SegDocuments, <<"1">>, SegDownload>>,
     <<SegApi, SegDocuments, <<"1">>, SegDownloadOriginal>>,
     <<SegApi, SegTemplates>>,
     <<SegApi, SegDocuments>>}

NoGet == [path |-> <<>>, user |-> 0, handler |-> "none", status |-> 0, body |-> NoBody]

RouteInit ==
    /\ backend \in Backends
    /\ documents = <<>>
    /\ templates = <<>>
    /\ files = <<>>
    /\ uploadedAs = <<>>
    /\ lastApplied = [i \in DocIds |-> NoRequest]
    /\ resp = [op |-> "start", id |-> 0, req |-> NoRequest, status |-> 0, body |-> NoBody,
               storeFailed |-> FALSE, compose |-> "none"]
    /\ faults = 0
    /\ input = NoGet
    /\ runs = <<>>
    /\ now = 0
    /\ inflight = <<>>

\* the answer of the handler of a route to a GET of path in the session of user
RouteAnswer(route, path, user) ==
    IF route.guarded /\ user = 0 THEN Reply(401, NoBody, FALSE)
    ELSE IF route.handler = "recent"
    THEN Reply(200, JsonBody(getRecentDocuments(user)), FALSE)
    ELSE IF route.handler = "templates" THEN Reply(200, JsonBody(templates), FALSE)
    ELSE LET documentId == parseInt(path[3])
         IN  IF documentId.isNaN THEN Reply(400, NoBody, FALSE)
             ELSE CASE route.handler = "getDocument" ->
                          getDocumentRoute(documentId.value, "none")
                    [] route.handler = "preview" -> previewRoute(documentId.value, "none")
                    [] route.handler = "downloadOriginal" ->
                          previewRoute(documentId.value, "none")
                    [] route.handler = "coverPreview" ->
                          coverPreviewRoute(documentId.value, "none")
                    [] route.handler = "download" -> downloadRoute(documentId.value, "none")

\* a GET request: dispatched to the first matching route and answered by it
Get(path, user) ==
    /\ LET i == Dispatch(GetRoutes, path)
           a == IF i = 0 THEN Reply(404, NoBody, FALSE)
                ELSE RouteAnswer(GetRoutes[i], path, user)
       IN  /\ input' = [path |-> path, user |-> user,
                        handler |-> IF i = 0 THEN "none" ELSE GetRoutes[i].handler,
                        status |-> a.status, body |-> a.body]
           /\ files' = a.files
           /\ resp' = Response("get", 0, NoRequest, a)
    /\ UNCHANGED <<backend, documents, templates, uploadedAs, lastApplied, faults, runs,
                   now, inflight>>

RouteNext ==
    \/ SeedTemplates
    \/ \E bytes \in ServerUploads : Upload(bytes, "none")
    \/ \E path \in GetPaths, user \in Sessions : Get(path, user)

RouteSpec == RouteInit /\ [][RouteNext]_vars

\* C27: a GET /api/documents/recent is handled by the recent-documents
\* handler: answered 401 without an authenticated session and otherwise 200
\* with the documents of the session's user; it is never handled by the
\* handler of /api/documents/:id with id = 'recent'.
RecentReachesItsHandler ==
    input.path = <<SegApi, SegDocuments, SegRecent>> =>
        /\ input.handler = "recent"
        /\ input.user = 0 => input.status = 401
        /\ input.user # 0 =>
              /\ input.status = 200
              /\ input.body = JsonBody(getRecentDocuments(input.user))

(***************************************************************************)
(* CosmosCreateSpec: CosmosDBStorage.createDocument calls in flight        *)
(* together.  A call awaits getNextId (the MAX(numericId) query, 1 when it *)
(* fails) and then container.items.create of an item whose id is           *)
(* String(numericId).  The containers are partitioned by /id               *)
(* (initializeCosmosDB), and Cosmos DB rejects the creation of an item     *)
(* whose id exists in its partition with 409 Conflict.                     *)
(***************************************************************************)
\* a createDocument call: where it is, the id it computed, the id it returned
CreateCall(pc, numericId, returned) ==
    [pc |-> pc, numericId |-> numericId, returned |-> returned]

CreateIdle == CreateCall("idle", 0, 0)

CosmosCreateInit ==
    /\ backend \in {"cosmos", "cosmosRecovery"}
    /\ documents = <<>>
    /\ templates = <<>>
    /\ files = <<>>
    /\ uploadedAs = <<>>
    /\ lastApplied = [i \in DocIds |-> NoRequest]
    /\ resp = [op |-> "start", id |-> 0, req |-> NoRequest, status |-> 0, body |-> NoBody,
               storeFailed |-> FALSE, compose |-> "none"]
    /\ faults = 0
    /\ input = NoInput
    /\ runs = <<>>
    /\ now = 0
    /\ inflight = [r \in Requests |-> CreateIdle]

\* a creation that Cosmos DB never rejects (a variant of idConflict)
idConflictIgnored(numericId) == FALSE

\* container.items.create: an item with this id exists in the partition of the id
idConflict(numericId) == \E i \in 1..Len(documents) : documents[i].id = numericId

\* const numericId = await this.getNextId(CONTAINERS.DOCUMENTS)
CreateGetNextId(r, queryFails) ==
    /\ inflight[r].pc \in {"idle", "returned", "threw"}
    /\ inflight' = [inflight EXCEPT ![r] = CreateCall("create", getNextId(queryFails), 0)]
    /\ UNCHANGED <<backend, documents, templates, files, uploadedAs, lastApplied, resp,
                   faults, input, runs, now>>

\* await container.items.create(cosmosDocument); return or throw
CreateItem(r, createFails) ==
    /\ inflight[r].pc = "create"
    /\ Len(documents) < MaxItems
    /\ LET numericId == inflight[r].numericId
       IN  IF createFails \/ idConflict(numericId)
           THEN /\ documents' = documents
                /\ now' = now
                /\ inflight' = [inflight EXCEPT ![r] = CreateCall("threw", numericId, 0)]
           ELSE /\ documents' = Append(documents,
                                       NewRow(numericId, [fileName |-> MulterFileName(now + 1)]))
                /\ now' = now + 1
                /\ inflight' = [inflight EXCEPT ![r] =
                                   CreateCall("returned", numericId, numericId)]
    /\ UNCHANGED <<backend, templates, files, uploadedAs, lastApplied, resp, faults,
                   input, runs>>

CosmosCreateNext ==
    \E r \in Requests :
        \/ \E queryFails \in BOOLEAN : CreateGetNextId(r, queryFails)
        \/ \E createFails \in BOOLEAN : CreateItem(r, createFails)

CosmosCreateSpec == CosmosCreateInit /\ [][CosmosCreateNext]_vars

\* C28: in the Cosmos storage, whatever the interleaving of createDocument
\* calls, also when the MAX(numericId) query fails and getNextId answers 1, no
\* two stored documents have the same numericId, and a call that returned
\* returned the id of one stored document, which no other returned call holds.
NumericIdsUnique ==
    /\ \A i, j \in 1..Len(documents) : documents[i].id = documents[j].id => i = j
    /\ \A r \in Requests :
          inflight[r].pc = "returned" =>
              /\ Cardinality({i \in 1..Len(documents) :
                                 documents[i].id = inflight[r].returned}) = 1
              /\ \A q \in Requests :
                    (inflight[q].pc = "returned"
                       /\ inflight[q].returned = inflight[r].returned) => q = r

\* two calls computed the same numericId; one created its item and the other
\* was rejected, one of them after a failed MAX query on a container that was
\* not empty
SameIdComputedTwice ==
    \E r, q \in Requests :
        /\ r # q
        /\ inflight[r].pc = "returned"
        /\ inflight[q].pc = "threw"
        /\ inflight[r].numericId = inflight[q].numericId
        /\ Len(documents) >= 2

(***************************************************************************)
(* The Editor page: the step indicator, the "Changes applied!" feedback,   *)
(* the customize mutation and the two-second timer of handleApplyChanges.  *)
(* inflight is the component's state, input the document held by the       *)
(* server, now the number of clicks on Apply.                              *)
(***************************************************************************)
\* useState of Editor(): selectedTemplateId 0 is undefined, customizations 0
\* is null, 1 the initial customizations, 2 edited ones; mutation is the
\* state of the applyChanges mutation and timers the pending setTimeout
\* callbacks
EditorState(currentStep, showFeedback, selectedTemplateId, customizations, mutation, timers, toast) ==
    [currentStep |-> currentStep, showFeedback |-> showFeedback,
     selectedTemplateId |-> selectedTemplateId, customizations |-> customizations,
     mutation |-> mutation, timers |-> timers, toast |-> toast]

EditorTemplateIds == 1..2

\* the document of GET /api/documents/:id, as the server holds it
ServerDocument(isModified, templateId) ==
    [isModified |-> isModified, templateId |-> templateId]

EditorInit ==
    /\ backend = "db"
    /\ documents = <<>>
    /\ templates = <<>>
    /\ files = <<>>
    /\ uploadedAs = <<>>
    /\ lastApplied = [i \in DocIds |-> NoRequest]
    /\ resp = [op |-> "start", id |-> 0, req |-> NoRequest, status |-> 0, body |-> NoBody,
               storeFailed |-> FALSE, compose |-> "none"]
    /\ faults = 0
    /\ input = ServerDocument(FALSE, 0)
    /\ runs = <<>>
    /\ now = 0
    /\ inflight = EditorState("template", FALSE, 0, 0, "idle", 0, "none")

EditorUnchanged ==
    UNCHANGED <<backend, documents, templates, files, uploadedAs, lastApplied,
                resp, faults, runs>>

\* the customization panel, and with it the Apply button, is rendered
PanelShown == inflight.selectedTemplateId # 0 /\ inflight.customizations # 0

handleSelectTemplate(t) ==
    /\ inflight' = [inflight EXCEPT
                      !.selectedTemplateId = t,
                      !.customizations = IF @ = 0 THEN 1 ELSE @,
                      !.currentStep = "customize"]
    /\ UNCHANGED <<input, now>>
    /\ EditorUnchanged

handleCustomizationChange ==
    /\ PanelShown
    /\ inflight' = [inflight EXCEPT !.customizations = 2]
    /\ UNCHANGED <<input, now>>
    /\ EditorUnchanged

\* a click on Apply: the feedback is switched on, the mutation is started and
\* the timer is armed, all before the request has answered
handleApplyChanges ==
    /\ PanelShown
    /\ now < MaxCalls
    /\ now' = now + 1
    /\ inflight' =
          IF inflight.selectedTemplateId # 0 /\ inflight.customizations # 0
          THEN [inflight EXCEPT !.showFeedback = TRUE,
                                !.mutation = "pending",
                                !.timers = @ + 1]
          ELSE [inflight EXCEPT !.toast = "Missing information"]
    /\ UNCHANGED input
    /\ EditorUnchanged

\* the customize request answered 200: onSuccess of the mutation
applyChangesOnSuccess ==
    /\ inflight.mutation = "pending"
    /\ inflight' = [inflight EXCEPT !.mutation = "success",
                                    !.toast = "Changes applied successfully"]
    /\ input' = ServerDocument(TRUE, inflight.selectedTemplateId)
    /\ UNCHANGED now
    /\ EditorUnchanged

\* the customize request failed: onError of the mutation
applyChangesOnError ==
    /\ inflight.mutation = "pending"
    /\ inflight' = [inflight EXCEPT !.mutation = "error",
                                    !.toast = "Failed to apply changes"]
    /\ UNCHANGED <<input, now>>
    /\ EditorUnchanged

\* the callback of setTimeout(..., 2000): currentDocId and documentId are
\* the same constant of the render that armed the timer
ApplyTimerFires ==
    /\ inflight.timers > 0
    /\ inflight' = [inflight EXCEPT !.timers = @ - 1,
                                    !.showFeedback = FALSE,
                                    !.currentStep = "preview"]
    /\ UNCHANGED <<input, now>>
    /\ EditorUnchanged

\* the effect on [document], run when the document query delivers the
\* server's document
DocumentLoaded ==
    /\ inflight' =
          [inflight EXCEPT
              !.currentStep = IF input.isModified THEN "preview" ELSE @,
              !.customizations = IF input.isModified /\ @ = 0 THEN 1 ELSE @,
              !.selectedTemplateId =
                  IF input.isModified /\ input.templateId # 0
                  THEN input.templateId ELSE @]
    /\ inflight' # inflight
    /\ UNCHANGED <<input, now>>
    /\ EditorUnchanged

EditorNext ==
    \/ \E t \in EditorTemplateIds : handleSelectTemplate(t)
    \/ handleCustomizationChange
    \/ handleApplyChanges
    \/ applyChangesOnSuccess
    \/ applyChangesOnError
    \/ ApplyTimerFires
    \/ DocumentLoaded

EditorSpec == EditorInit /\ [][EditorNext]_vars

\* C29: in the Editor the "Changes applied!" feedback is shown only when the
\* customize request succeeded, and the step indicator is on 'preview' only
\* when a customize request succeeded: while the request is pending or after
\* it failed there is no success feedback and the step stays 'customize'.
FeedbackOnlyAfterSuccess ==
    /\ inflight.showFeedback => inflight.mutation = "success"
    /\ inflight.currentStep = "preview" => input.isModified

(***************************************************************************)
(* The PDFPreview component: the page shown, the page count of the loaded  *)
(* document and the loads started by the effect on [pdfUrl].  inflight is  *)
(* the component's state, input the pdfUrl prop, runs the loads that have  *)
(* not settled, now the number of changes of pdfUrl.                       *)
(***************************************************************************)
\* what pdfjsLib.getDocument(pdfUrl) finds at a url: a document of 1 to
\* MaxPages pages, or, for 0, nothing it can load
PdfUrls == 0..MaxPages

\* useState of PDFPreview(): pdfDoc 0 is null, otherwise the page count of
\* the document held
PreviewState(pdfDoc, currentPage, totalPages, loading) ==
    [pdfDoc |-> pdfDoc, currentPage |-> currentPage, totalPages |-> totalPages,
     loading |-> loading]

\* the first render: the state of the useState calls, and the effect on
\* [pdfUrl] has started loadPdf for the url of the first render
PreviewInit ==
    /\ backend = "db"
    /\ documents = <<>>
    /\ templates = <<>>
    /\ files = <<>>
    /\ uploadedAs = <<>>
    /\ lastApplied = [i \in DocIds |-> NoRequest]
    /\ resp = [op |-> "start", id |-> 0, req |-> NoRequest, status |-> 0, body |-> NoBody,
               storeFailed |-> FALSE, compose |-> "none"]
    /\ faults = 0
    /\ input \in PdfUrls
    /\ runs = <<input>>
    /\ now = 0
    /\ inflight = PreviewState(0, 1, 0, TRUE)

PreviewUnchanged ==
    UNCHANGED <<backend, documents, templates, files, uploadedAs, lastApplied,
                resp, faults>>

\* the sequence without its i-th element
WithoutLoad(loads, i) ==
    [k \in 1..(Len(loads) - 1) |-> IF k < i THEN loads[k] ELSE loads[k + 1]]

\* the parent renders the component with another pdfUrl: the effect runs
\* loadPdf up to its await
ChangePdfUrl(url) ==
    /\ now < MaxCalls
    /\ url # input
    /\ input' = url
    /\ now' = now + 1
    /\ runs' = Append(runs, url)
    /\ inflight' = [inflight EXCEPT !.loading = TRUE]
    /\ PreviewUnchanged

\* a loading task settles and loadPdf runs on from its await: the document
\* and its page count are stored, or the catch block runs
loadPdfSettles(i) ==
    /\ i \in 1..Len(runs)
    /\ runs' = WithoutLoad(runs, i)
    /\ inflight' =
          IF runs[i] # 0
          THEN [inflight EXCEPT !.pdfDoc = runs[i],
                                !.totalPages = runs[i],
                                !.loading = FALSE]
          ELSE [inflight EXCEPT !.loading = FALSE]
    /\ UNCHANGED <<input, now>>
    /\ PreviewUnchanged

goToPrevPage ==
    /\ inflight' = IF inflight.currentPage > 1
                   THEN [inflight EXCEPT !.currentPage = @ - 1]
                   ELSE inflight
    /\ inflight' # inflight
    /\ UNCHANGED <<input, runs, now>>
    /\ PreviewUnchanged

goToNextPage ==
    /\ inflight' = IF inflight.currentPage < inflight.totalPages
                   THEN [inflight EXCEPT !.currentPage = @ + 1]
                   ELSE inflight
    /\ inflight' # inflight
    /\ UNCHANGED <<input, runs, now>>
    /\ PreviewUnchanged

PreviewNext ==
    \/ \E url \in PdfUrls : ChangePdfUrl(url)
    \/ \E i \in 1..Len(runs) : loadPdfSettles(i)
    \/ goToPrevPage
    \/ goToNextPage

PreviewSpec == PreviewInit /\ [][PreviewNext]_vars

\* C30: in PDFPreview, whenever a document is loaded (totalPages > 0) the
\* current page lies between 1 and totalPages, after any sequence of
\* next-page clicks, previous-page clicks and changes of pdfUrl.
CurrentPageWithinDocument ==
    inflight.totalPages > 0 =>
        (1 <= inflight.currentPage /\ inflight.currentPage <= inflight.totalPages)

====
